---------------------------- MODULE Spec2Model ----------------------------
(***************************************************************************)
(* A state-machine model of the JSMastery video-control extension.         *)
(*                                                                         *)
(* Two processes are modelled.  The page side is the content script        *)
(* (src/content.js, and its second copy src/unnamed/part_001): one script  *)
(* instance per frame, all instances of one origin sharing localStorage.   *)
(* The relay side is the background script (src/background.js, and its    *)
(* second copy src/unnamed/part_002).                                      *)
(*                                                                         *)
(* JavaScript runs every listener and every timer callback to completion,  *)
(* so each of them is one action here.                                     *)
(***************************************************************************)
EXTENDS Integers, Sequences, FiniteSets, TLC

\* ----------------------------------------------------------------- bounds

\* Number of controlVideo messages the environment sends to the page.
MaxMsgs == 2

\* Shortcut activations the relay accepts in one run.
MaxActs == 2

\* The page clock runs from StartTime to MaxTime (milliseconds).
StartTime == 1000
MaxTime == 2000

\* Duration in seconds of the long media element of the catalogue.
Duration == 100

\* ------------------------------------------------------ program constants

\* content.js:30  Date.now() + 1000
LockExpiryMs == 1000
\* part_001:68  message.timestamp - lastTimestamp < 500
DuplicateWindowMs == 500
\* content.js:354 / 360  video.currentTime += 10 / -= 10
SeekSeconds == 10
\* content.js:356  Math.abs(video.currentTime - originalTime) > 1
SeekEpsilon == 1
\* content.js:108  setTimeout(..., 200)
CleanupDelayMs == 200
\* content.js:913  setTimeout(..., 50)
KeyDelayMs == 50
\* part_001:1326  now - lastTimeAdjustment < 400
AdjustWindowMs == 400

Commands == {"fast-forward", "rewind", "play-pause"}

\* The two copies of the content script in the repository.
Variants == {"content", "part001"}

\* Frame 1 is the top document, frame 2 a same-origin iframe inside it (on
\* the pages that have one); each frame runs one instance of the content
\* script and both see one localStorage.
Instances == {1, 2}

\* The two copies of the relay: background.js stamps its controlVideo
\* messages with Date.now(), part_002 sends no timestamp.
Relays == {"background", "part002"}

\* The pairs of page script and relay that are run together: the extension
\* as shipped, and the earlier copy of the page script with either relay.
\* (content.js never reads the timestamp, so its relay makes no difference to
\* it.)
Installs ==
  { <<"content", "background">>, <<"part001", "background">>, <<"part001", "part002">> }

Min(a, b) == IF a < b THEN a ELSE b
Max(a, b) == IF a > b THEN a ELSE b
Abs(a) == IF a < 0 THEN -a ELSE a

\* ---------------------------------------------------------------- strings
\* A text (label, title, textContent, class attribute) is a sequence of
\* words.  String.prototype.toLowerCase and includes are computed on words.

LowerWord(w) ==
  CASE w = "Forward" -> "forward"
    [] w = "Rewind" -> "rewind"
    [] w = "Play" -> "play"
    [] w = "Pause" -> "pause"
    [] w = "Next" -> "next"
    [] w = "Lesson" -> "lesson"
    [] w = "Search" -> "search"
    [] w = "Check" -> "check"
    [] w = "Answer" -> "answer"
    [] w = "Back" -> "back"
    [] OTHER -> w

toLowerCase(s) == [k \in 1..Len(s) |-> LowerWord(s[k])]

\* s.includes(t): t occurs in s as a run of consecutive words.
includes(s, t) ==
  \E k \in 0..(Len(s) - Len(t)) : \A j \in 1..Len(t) : s[k + j] = t[j]


\* -------------------------------------------------------------------- DOM
\* A <button> element with the attributes and descendants the script reads.
PlainButton ==
  [ dataPlyr |-> "",          \* data-plyr attribute
    aria |-> << >>,           \* aria-label
    title |-> << >>,          \* title
    text |-> << >>,           \* textContent (includes the span's text)
    useHref |-> "",           \* href of a descendant <svg><use>, "" if none
    svgPath |-> FALSE,        \* has a descendant <svg><path>
    spanCls |-> "",           \* class of a descendant span: plyr__sr-only, sr-only
    spanText |-> << >>,       \* that span's trimmed textContent
    btype |-> "",             \* type attribute
    haspopup |-> FALSE,       \* aria-haspopup="dialog" on the button or its parent
    cls |-> << >>,            \* class names
    group |-> 0 ]             \* index of the enclosing control container, 0 if none

PlyrButton(kind, label) ==
  [PlainButton EXCEPT !.dataPlyr = kind, !.useHref = "#plyr-" \o kind,
                      !.spanCls = "plyr__sr-only", !.spanText = label,
                      !.text = label, !.group = 1]

LabelledButton(label) == [PlainButton EXCEPT !.aria = label, !.group = 1]

SrOnlyButton(label) ==
  [PlainButton EXCEPT !.spanCls = "sr-only", !.spanText = label, !.text = label]

EmptyDom == [buttons |-> << >>, groups |-> << >>, videos |-> << >>, playerEl |-> FALSE]

VideoIds == {1, 2}

NoVideo == [paused |-> TRUE, t |-> 0, d |-> 0, canPlay |-> FALSE]

\* A media element: paused flag, currentTime and duration in whole seconds,
\* and whether the platform lets a play() request through.
Video(p, t, d, c) == [paused |-> p, t |-> t, d |-> d, canPlay |-> c]

\* Starting states of the single media element: a paused element at each
\* position, and in mid-play a playing one and one the platform will not start.
Positions == {0, 50, Duration - 1, Duration}

StartStates ==
  {Video(TRUE, t, Duration, TRUE) : t \in Positions}
    \cup {Video(FALSE, 50, Duration, TRUE), Video(TRUE, 50, Duration, FALSE)}

\* A page with exactly one media element in the top document and no button.
OneVideoLayouts ==
  { [ name |-> "one-video",
      frames |-> {1},
      dom |-> [i \in Instances |->
                 IF i = 1 THEN [EmptyDom EXCEPT !.videos = <<1>>] ELSE EmptyDom],
      video |-> [v \in VideoIds |-> IF v = 1 THEN start ELSE NoVideo] ]
    : start \in StartStates }

\* Nothing to control at all.
EmptyLayout ==
  [ name |-> "empty",
    frames |-> {1},
    dom |-> [i \in Instances |-> EmptyDom],
    video |-> [v \in VideoIds |-> NoVideo] ]

\* The only media element lives in the same-origin iframe.
IframeVideoLayout ==
  [ name |-> "iframe-video",
    frames |-> {1, 2},
    dom |-> [i \in Instances |->
               IF i = 2 THEN [EmptyDom EXCEPT !.videos = <<2>>] ELSE EmptyDom],
    video |-> [v \in VideoIds |->
               IF v = 2 THEN Video(FALSE, 50, Duration, TRUE) ELSE NoVideo] ]

\* A Plyr player: .plyr > .plyr__controls with the three marked buttons.
PlyrLayout ==
  [ name |-> "plyr",
    frames |-> {1},
    dom |-> [i \in Instances |->
               IF i = 1
               THEN [ buttons |-> << PlyrButton("play", <<"Play">>),
                                     PlyrButton("rewind", <<"Rewind", "10s">>),
                                     PlyrButton("fast-forward", <<"Forward", "10s">>) >>,
                      groups |-> << "plyr__controls" >>,
                      videos |-> <<1>>,
                      playerEl |-> TRUE ]
               ELSE EmptyDom],
    video |-> [v \in VideoIds |->
               IF v = 1 THEN Video(TRUE, 50, Duration, TRUE) ELSE NoVideo] ]

\* A bespoke player: a .video-controls container whose buttons carry
\* aria-labels only.
LabelledLayout ==
  [ name |-> "labelled",
    frames |-> {1},
    dom |-> [i \in Instances |->
               IF i = 1
               THEN [ buttons |-> << LabelledButton(<<"Play">>),
                                     LabelledButton(<<"Rewind", "10s">>),
                                     LabelledButton(<<"Forward", "10s">>) >>,
                      groups |-> << "video-controls" >>,
                      videos |-> <<1>>,
                      playerEl |-> FALSE ]
               ELSE EmptyDom],
    video |-> [v \in VideoIds |->
               IF v = 1 THEN Video(FALSE, 50, Duration, TRUE) ELSE NoVideo] ]

\* Buttons outside any control container, labelled by a screen-reader span,
\* beside a media element that sits at a bound.
SrOnlyLayouts ==
  { [ name |-> "sr-only",
      frames |-> {1},
      dom |-> [i \in Instances |->
                 IF i = 1
                 THEN [ buttons |-> << SrOnlyButton(<<"Rewind", "10s">>),
                                       SrOnlyButton(<<"Forward", "10s">>) >>,
                        groups |-> << >>,
                        videos |-> <<1>>,
                        playerEl |-> FALSE ]
                 ELSE EmptyDom],
      video |-> [v \in VideoIds |->
                 IF v = 1 THEN Video(TRUE, t, Duration, TRUE) ELSE NoVideo] ]
    : t \in {Duration} }

\* An empty page, with an iframe, on which a DOM or storage call made by the
\* script can raise (a sandboxed frame, a patched prototype).
FragileLayout == [EmptyLayout EXCEPT !.name = "fragile", !.frames = {1, 2}]

Fragile(lay) == lay.name = "fragile"

\* A button outside any control container that carries an aria-label only.
AriaButton(label) == [PlainButton EXCEPT !.aria = label]

\* Two bare buttons labelled "Forward 10s" and "Rewind 10s", in either
\* document order, beside a media element.
TwoButtonLayouts ==
  { [ name |-> "two-buttons",
      frames |-> {1},
      dom |-> [i \in Instances |->
                 IF i = 1
                 THEN [ buttons |-> order,
                        groups |-> << >>,
                        videos |-> <<1>>,
                        playerEl |-> FALSE ]
                 ELSE EmptyDom],
      video |-> [v \in VideoIds |->
                 IF v = 1 THEN Video(TRUE, 50, Duration, TRUE) ELSE NoVideo] ]
    : order \in { << AriaButton(<<"Forward", "10s">>), AriaButton(<<"Rewind", "10s">>) >>,
                  << AriaButton(<<"Rewind", "10s">>), AriaButton(<<"Forward", "10s">>) >> } }

\* Three adjacent buttons without any label in a <div class="controls">,
\* beside a media element.
TripleLayout ==
  [ name |-> "triple",
    frames |-> {1},
    dom |-> [i \in Instances |->
               IF i = 1
               THEN [ buttons |-> << [PlainButton EXCEPT !.group = 1],
                                     [PlainButton EXCEPT !.group = 1],
                                     [PlainButton EXCEPT !.group = 1] >>,
                      groups |-> << "controls" >>,
                      videos |-> <<1>>,
                      playerEl |-> FALSE ]
               ELSE EmptyDom],
    video |-> [v \in VideoIds |->
               IF v = 1 THEN Video(TRUE, 50, Duration, TRUE) ELSE NoVideo] ]

\* A lesson page: a "Next Lesson" navigation button with an arrow-forward
\* icon, and in a <div class="controls"> a button labelled "Play" that opens
\* a dialog (aria-haspopup="dialog"); one media element.
NavLayout ==
  [ name |-> "nav",
    frames |-> {1},
    dom |-> [i \in Instances |->
               IF i = 1
               THEN [ buttons |-> << [PlainButton EXCEPT !.text = <<"Next", "Lesson">>,
                                                         !.useHref = "#arrow-forward"],
                                     [PlainButton EXCEPT !.aria = <<"Play">>,
                                                         !.haspopup = TRUE,
                                                         !.group = 1] >>,
                      groups |-> << "controls" >>,
                      videos |-> <<1>>,
                      playerEl |-> FALSE ]
               ELSE EmptyDom],
    video |-> [v \in VideoIds |->
               IF v = 1 THEN Video(TRUE, 50, Duration, TRUE) ELSE NoVideo] ]

\* Two media elements and no control: the long one is paused, the short one,
\* second in the document, is playing.
TwoVideoLayout ==
  [ name |-> "two-videos",
    frames |-> {1},
    dom |-> [i \in Instances |->
               IF i = 1 THEN [EmptyDom EXCEPT !.videos = <<1, 2>>] ELSE EmptyDom],
    video |-> [v \in VideoIds |->
               IF v = 1 THEN Video(TRUE, 50, Duration, TRUE)
               ELSE Video(FALSE, 20, 50, TRUE)] ]

Layouts ==
  OneVideoLayouts \cup SrOnlyLayouts \cup TwoButtonLayouts
    \cup {EmptyLayout, FragileLayout, IframeVideoLayout, PlyrLayout, LabelledLayout,
          TripleLayout, NavLayout, TwoVideoLayout}

\* ------------------------------------------------------- element queries

\* Substrings of an <svg><use> href that the script tests with includes().
HrefParts(href) ==
  CASE href = "#plyr-play" -> {"plyr-play", "play"}
    [] href = "#plyr-pause" -> {"plyr-pause", "pause"}
    [] href = "#plyr-rewind" -> {"plyr-rewind", "rewind"}
    [] href = "#plyr-fast-forward" -> {"plyr-fast-forward", "fast-forward", "forward"}
    [] href = "#arrow-forward" -> {"forward"}
    [] OTHER -> {}

\* The smallest member of a set of indices, 0 if it is empty: the first
\* element in document order that passes a test.
First(S) == IF S = {} THEN 0 ELSE CHOOSE x \in S : \A y \in S : x <= y

\* The members of a set of indices, in increasing order.
RECURSIVE Ascending(_)
Ascending(S) ==
  IF S = {} THEN << >>
  ELSE LET m == CHOOSE x \in S : \A y \in S : x <= y
       IN <<m>> \o Ascending(S \ {m})

\* Array.from(new Set(list)) / validButtons.includes(): drop repeats, keep
\* the first occurrence.
RECURSIVE Dedup(_)
Dedup(s) ==
  IF s = << >> THEN << >>
  ELSE LET rest == Dedup(SubSeq(s, 1, Len(s) - 1))
           x == s[Len(s)]
       IN IF \E k \in 1..Len(rest) : rest[k] = x THEN rest ELSE Append(rest, x)

dataPlyrValue(command) ==
  CASE command = "play-pause" -> "play"
    [] command = "rewind" -> "rewind"
    [] command = "fast-forward" -> "fast-forward"

\* The span text that names a command's button in a Plyr player.
SpanNames(command, text) ==
  \/ command = "rewind" /\ text = <<"Rewind", "10s">>
  \/ command = "fast-forward" /\ text = <<"Forward", "10s">>
  \/ command = "play-pause" /\ (text = <<"Play">> \/ text = <<"Pause">>)

\* findExactButton: the first button[data-plyr=...], else the first button in
\* document order whose icon href or .plyr__sr-only span names the command.
\* The result is an index into dom.buttons, 0 for null.
findExactButton(dom, command) ==
  LET value == dataPlyrValue(command)
      IsPlyr(b) == b.dataPlyr = value
      ByIconOrSpan(b) ==
        \/ b.useHref = "#plyr-" \o value
        \/ b.spanCls = "plyr__sr-only" /\ SpanNames(command, b.spanText)
      plyrButton == First({n \in 1..Len(dom.buttons) : IsPlyr(dom.buttons[n])})
  IN IF plyrButton # 0 THEN plyrButton
     ELSE First({n \in 1..Len(dom.buttons) : ByIconOrSpan(dom.buttons[n])})

\* The place of a container's class in groupSelectors; 0 when no selector
\* matches it.  '[class*="controls"]' matches every class name that contains
\* "controls", so the specific classes are found first and skipped later.
SelectorRank(cls) ==
  CASE cls = "plyr__controls" -> 1
    [] cls = "ytp-left-controls" -> 2
    [] cls = "ytp-chrome-bottom" -> 3
    [] cls = "vjs-control-bar" -> 4
    [] cls = "mejs__controls" -> 5
    [] cls = "video-controls" -> 6
    [] cls = "media-controls" -> 7
    [] cls = "player-controls" -> 8
    [] cls = "controls" -> 9
    [] cls = "ytp-chrome-controls" -> 9
    [] cls = "PlayerControls" -> 10
    [] OTHER -> 0

GroupSelectorCount == 10

\* trySpecificPlayerPatterns: the control containers that hold at least one
\* button, ordered by the selector that finds them first and then by document
\* order.  The result is a sequence of indices into dom.groups.
RECURSIVE PatternsFrom(_, _)
PatternsFrom(dom, rank) ==
  IF rank > GroupSelectorCount THEN << >>
  ELSE LET Found(g) ==
             /\ SelectorRank(dom.groups[g]) = rank
             /\ \E k \in 1..Len(dom.buttons) : dom.buttons[k].group = g
           idx == [g \in 1..Len(dom.groups) |-> g]
       IN Ascending({n \in DOMAIN idx : Found(n)}) \o PatternsFrom(dom, rank + 1)

trySpecificPlayerPatterns(dom) == PatternsFrom(dom, 1)

\* performVideoControl, "buttons we NEVER want to click".
NeverClick(b) ==
  LET innerText == toLowerCase(b.text)
      ariaLabel == toLowerCase(b.aria)
  IN \/ includes(innerText, <<"next", "lesson">>)
     \/ includes(innerText, <<"check", "answer">>)
     \/ includes(ariaLabel, <<"next", "lesson">>)
     \/ includes(innerText, <<"search">>)
     \/ includes(ariaLabel, <<"notification">>)
     \/ (b.svgPath /\ b.useHref = "")

LooksLikeRewind(b) ==
  \/ b.dataPlyr = "rewind"
  \/ includes(toLowerCase(b.aria), <<"rewind">>)
  \/ includes(toLowerCase(b.title), <<"rewind">>)
  \/ includes(toLowerCase(b.text), <<"rewind">>)
  \/ "plyr-rewind" \in HrefParts(b.useHref)

\* performVideoControl, the isMatch test of the control-group loop.
GroupMatch(b, command) ==
  LET ariaLabel == toLowerCase(b.aria)
      title == toLowerCase(b.title)
      innerText == toLowerCase(b.text)
  IN CASE command = "play-pause" ->
            \/ b.dataPlyr = "play"
            \/ includes(ariaLabel, <<"play">>) \/ includes(ariaLabel, <<"pause">>)
            \/ includes(title, <<"play">>) \/ includes(title, <<"pause">>)
            \/ includes(innerText, <<"play">>) \/ includes(innerText, <<"pause">>)
            \/ "plyr-play" \in HrefParts(b.useHref)
            \/ "plyr-pause" \in HrefParts(b.useHref)
       [] command = "rewind" -> LooksLikeRewind(b)
       [] command = "fast-forward" ->
            /\ \/ b.dataPlyr = "fast-forward"
               \/ ariaLabel = <<"forward", "10s">>
               \/ title = <<"forward", "10s">>
               \/ "plyr-fast-forward" \in HrefParts(b.useHref)
               \/ b.spanCls = "plyr__sr-only" /\ b.spanText = <<"Forward", "10s">>
            /\ ~LooksLikeRewind(b)

\* The button the control-group loop picks in container g: the first button of
\* the container that is not skipped and matches; 0 if none.
GroupButton(dom, g, command) ==
  LET Hit(k) ==
        /\ dom.buttons[k].group = g
        /\ ~NeverClick(dom.buttons[k])
        /\ GroupMatch(dom.buttons[k], command)
      idx == [k \in 1..Len(dom.buttons) |-> k]
  IN First({n \in DOMAIN idx : Hit(n)})

\* ------------------------------------------------------ one command's run
\* What one run of the strategy chain has done so far.  video, cache and lta
\* are the media elements, cachedVideoElement and lastTimeAdjustment as the
\* run leaves them; clicks, media and keys list the events it dispatched, in
\* order; timers lists the setTimeout calls it made; trace lists the
\* strategies it tried with their results; ok is the last result.
NewRun(videoState, cache, lta) ==
  [ video |-> videoState, cache |-> cache, lta |-> lta,
    clicks |-> << >>, media |-> << >>, keys |-> << >>, timers |-> << >>,
    trace |-> << >>, ok |-> FALSE ]

Result(X, ok) == [X EXCEPT !.ok = ok]

Dispatch(X, b, events) ==
  [X EXCEPT !.clicks = @ \o [k \in 1..Len(events) |-> <<b, events[k]>>]]

KeyEvent(type, key, target) == [type |-> type, key |-> key, target |-> target]

Timer(delay, kind, key, target) ==
  [delay |-> delay, kind |-> kind, key |-> key, target |-> target]

\* tryButtonClick of content.js: button.click() and then a second, synthetic
\* click event on the same button.
tryButtonClickV1(X, dom, b) ==
  IF b = 0 THEN Result(X, FALSE)
  ELSE Result(Dispatch(X, b, <<"click", "click">>), TRUE)

\* tryButtonClick of part_001: mousedown, mouseup, click(), and a click on
\* the button's <svg>, which bubbles to the button.
tryButtonClickV2(X, dom, b) ==
  IF b = 0 THEN Result(X, FALSE)
  ELSE LET hasSvg == dom.buttons[b].useHref # "" \/ dom.buttons[b].svgPath
           events == IF hasSvg THEN <<"mousedown", "mouseup", "click", "click">>
                     ELSE <<"mousedown", "mouseup", "click">>
       IN Result(Dispatch(X, b, events), TRUE)

tryButtonClick(X, dom, b, variant) ==
  IF variant = "content" THEN tryButtonClickV1(X, dom, b) ELSE tryButtonClickV2(X, dom, b)

\* HTMLMediaElement.currentTime = t + delta: the element clamps the position.
SetCurrentTime(v, delta) == [v EXCEPT !.t = Max(0, Min(v.t + delta, v.d))]

\* video.play() / video.pause(): play() leaves the element paused when the
\* platform rejects the request.
TogglePlayback(v) ==
  IF v.paused THEN [v EXCEPT !.paused = ~v.canPlay] ELSE [v EXCEPT !.paused = TRUE]

Seek(X, vid, delta) ==
  [X EXCEPT !.video[vid] = SetCurrentTime(@, delta),
            !.media = Append(@, <<vid, "seek">>)]

Toggle(X, vid) ==
  [X EXCEPT !.video[vid] = TogglePlayback(@),
            !.media = Append(@, <<vid, IF X.video[vid].paused THEN "play" ELSE "pause">>)]

\* The media elements a frame's script can see: document.querySelectorAll
\* ('video'), and those of the same-origin iframes of the top document.
DocumentVideos(lay, i) == lay.dom[i].videos

IframeVideos(lay, i) == IF i = 1 THEN lay.dom[2].videos ELSE << >>

\* A bestVideo loop without its break: a playing element is taken but the
\* loop goes on; C18 does not hold of it.
RECURSIVE PickBestNoBreak(_, _, _, _, _)
PickBestNoBreak(vs, videoState, k, best, bestDuration) ==
  IF k > Len(vs) THEN best
  ELSE IF ~videoState[vs[k]].paused
       THEN PickBestNoBreak(vs, videoState, k + 1, vs[k], bestDuration)
  ELSE IF videoState[vs[k]].d > bestDuration
       THEN PickBestNoBreak(vs, videoState, k + 1, vs[k], videoState[vs[k]].d)
       ELSE PickBestNoBreak(vs, videoState, k + 1, best, bestDuration)

\* tryHTML5VideoMethod, the bestVideo loop: the first playing element, else
\* the first element of greatest duration seen so far.
RECURSIVE PickBest(_, _, _, _, _)
PickBest(vs, videoState, k, best, bestDuration) ==
  IF k > Len(vs) THEN best
  ELSE IF ~videoState[vs[k]].paused THEN vs[k]
  ELSE IF videoState[vs[k]].d > bestDuration
       THEN PickBest(vs, videoState, k + 1, vs[k], videoState[vs[k]].d)
       ELSE PickBest(vs, videoState, k + 1, best, bestDuration)

ArrowKey(seconds) == IF seconds > 0 THEN "ArrowRight" ELSE "ArrowLeft"

\* adjustVideoTime (part_001): no seek at all, one arrow key-down on the
\* document and its key-up 50 ms later; within 400 ms of the previous call it
\* does nothing and still returns true.
adjustVideoTime(X, seconds, nowv) ==
  IF nowv - X.lta < AdjustWindowMs THEN Result(X, TRUE)
  ELSE Result([X EXCEPT !.lta = nowv,
                        !.keys = Append(@, KeyEvent("keydown", ArrowKey(seconds), "document")),
                        !.timers = Append(@, Timer(KeyDelayMs, "keyup", ArrowKey(seconds), "document"))],
              TRUE)

ForwardClasses ==
  {"plyr__controls__item--forward", "vjs-skip-forward-button", "forward-button"}

RewindClasses ==
  {"plyr__controls__item--rewind", "vjs-skip-backward-button", "backward-button",
   "rewind-button"}

HasAnyWord(s, words) == \E k \in 1..Len(s) : s[k] \in words

\* clickOnlyForwardButton (part_001): possibleButtons in the order the
\* queries add them.
ForwardCandidates(dom) ==
  LET idx == [k \in 1..Len(dom.buttons) |-> k]
      ByAria(k) == HasAnyWord(dom.buttons[k].aria, {"forward", "Forward", "10s", "+10"})
      ByTitle(k) == HasAnyWord(dom.buttons[k].title, {"forward", "Forward", "10s", "+10"})
      ByData(k) == dom.buttons[k].dataPlyr = "fast-forward"
      ByClass(k) == HasAnyWord(dom.buttons[k].cls, ForwardClasses)
      ByText(k) ==
        \/ HasAnyWord(toLowerCase(dom.buttons[k].text), {"forward", "+10"})
        \/ "forward" \in HrefParts(dom.buttons[k].useHref)
      ByIcon(k) == "forward" \in HrefParts(dom.buttons[k].useHref)
  IN Dedup(Ascending({n \in DOMAIN idx : ByAria(n)})
             \o Ascending({n \in DOMAIN idx : ByTitle(n)})
             \o Ascending({n \in DOMAIN idx : ByData(n)})
             \o Ascending({n \in DOMAIN idx : ByClass(n)})
             \o Ascending({n \in DOMAIN idx : ByText(n)})
             \o Ascending({n \in DOMAIN idx : ByIcon(n)}))

\* clickOnlyRewindButton (part_001).
RewindCandidates(dom) ==
  LET idx == [k \in 1..Len(dom.buttons) |-> k]
      Terms == {"rewind", "Rewind", "back", "Back", "-10", "previous", "Previous"}
      ByAria(k) == HasAnyWord(dom.buttons[k].aria, Terms)
      ByTitle(k) == HasAnyWord(dom.buttons[k].title, Terms)
      ByData(k) == dom.buttons[k].dataPlyr = "rewind"
      ByClass(k) == HasAnyWord(dom.buttons[k].cls, RewindClasses)
      ByText(k) ==
        \/ HasAnyWord(toLowerCase(dom.buttons[k].text), {"rewind", "back", "-10"})
        \/ "rewind" \in HrefParts(dom.buttons[k].useHref)
      ByIcon(k) == "rewind" \in HrefParts(dom.buttons[k].useHref)
  IN Dedup(Ascending({n \in DOMAIN idx : ByAria(n)})
             \o Ascending({n \in DOMAIN idx : ByTitle(n)})
             \o Ascending({n \in DOMAIN idx : ByData(n)})
             \o Ascending({n \in DOMAIN idx : ByClass(n)})
             \o Ascending({n \in DOMAIN idx : ByText(n)})
             \o Ascending({n \in DOMAIN idx : ByIcon(n)}))

clickOnlyForwardButton(X, dom, nowv) ==
  LET uniqueButtons == ForwardCandidates(dom)
  IN IF uniqueButtons # << >>
     THEN Result(Dispatch(X, uniqueButtons[1], <<"mousedown", "mouseup", "click">>), TRUE)
     ELSE adjustVideoTime(X, SeekSeconds, nowv)

clickOnlyRewindButton(X, dom, nowv) ==
  LET uniqueButtons == RewindCandidates(dom)
  IN IF uniqueButtons # << >>
     THEN Result(Dispatch(X, uniqueButtons[1], <<"mousedown", "mouseup", "click">>), TRUE)
     ELSE adjustVideoTime(X, -SeekSeconds, nowv)

\* A lookup that ignores the cache and takes what a new scan finds; C17 does
\* not hold of it.
CachedOrFoundRescan(cache, found) == found

\* tryHTML5VideoMethod, "if (!cachedVideoElement) { ... }": the cached
\* element if there is one, else what the scan of the page finds.
CachedOrFound(cache, found) == IF cache # 0 THEN cache ELSE found

\* tryHTML5VideoMethod.  The element is looked up only while the cache is
\* empty.  content.js seeks the element and reports whether the position moved
\* by more than one second; part_001 hands fast-forward and rewind to
\* clickOnlyForwardButton / clickOnlyRewindButton instead.
tryHTML5VideoMethod(X, lay, i, command, variant, nowv) ==
  LET direct == DocumentVideos(lay, i)
      videos == IF direct # << >> THEN direct ELSE IframeVideos(lay, i)
      video == CachedOrFound(X.cache,
                             IF videos # << >>
                             THEN PickBest(videos, X.video, 1, videos[1], 0)
                             ELSE 0)
      X1 == [X EXCEPT !.cache = video]
  IN IF video = 0 THEN Result(X, FALSE)
     ELSE IF command = "play-pause" THEN Result(Toggle(X1, video), TRUE)
     ELSE IF variant = "content"
          THEN LET delta == IF command = "fast-forward" THEN SeekSeconds ELSE -SeekSeconds
                   X2 == Seek(X1, video, delta)
               IN Result(X2, Abs(X2.video[video].t - X.video[video].t) > SeekEpsilon)
          ELSE IF command = "fast-forward"
               THEN clickOnlyForwardButton(X1, lay.dom[i], nowv)
               ELSE clickOnlyRewindButton(X1, lay.dom[i], nowv)

ScreenReaderSpan(b, text) ==
  b.spanCls \in {"plyr__sr-only", "sr-only"} /\ b.spanText = text

\* tryFastForwardSafely: the first of the marked buttons is clicked once.
tryFastForwardSafely(X, dom) ==
  LET idx == [k \in 1..Len(dom.buttons) |-> k]
      IsPlyr(k) == dom.buttons[k].dataPlyr = "fast-forward"
      IsSafe(k) ==
        \/ dom.buttons[k].useHref = "#plyr-fast-forward"
        \/ ScreenReaderSpan(dom.buttons[k], <<"Forward", "10s">>)
      validButtons ==
        Dedup(Ascending({n \in DOMAIN idx : IsPlyr(n)})
                \o Ascending({n \in DOMAIN idx : IsSafe(n)}))
  IN IF validButtons # << >>
     THEN Result(Dispatch(X, validButtons[1], <<"click">>), TRUE)
     ELSE Result(X, FALSE)

\* tryRewindFallback.
tryRewindFallback(X, lay, i, variant, nowv) ==
  LET dom == lay.dom[i]
      idx == [k \in 1..Len(dom.buttons) |-> k]
      directButton == findExactButton(dom, "rewind")
      IsPlyr(k) == dom.buttons[k].dataPlyr = "rewind"
      Skip(b) == HasAnyWord(b.cls, {"mr-5"}) \/ b.haspopup \/ includes(b.text, <<"Search">>)
      IsSafe(k) ==
        /\ ~Skip(dom.buttons[k])
        /\ \/ dom.buttons[k].useHref = "#plyr-rewind"
           \/ ScreenReaderSpan(dom.buttons[k], <<"Rewind", "10s">>)
      validButtons ==
        Dedup(Ascending({n \in DOMAIN idx : IsPlyr(n)})
                \o Ascending({n \in DOMAIN idx : IsSafe(n)}))
      videos == DocumentVideos(lay, i)
  IN IF directButton # 0 THEN tryButtonClick(X, dom, directButton, variant)
     ELSE IF validButtons # << >> THEN tryButtonClick(X, dom, validButtons[1], variant)
     ELSE IF videos = << >> THEN Result(X, FALSE)
     ELSE IF variant = "content"
          THEN LET X1 == Seek(X, videos[1], -SeekSeconds)
               IN Result(X1, Abs(X1.video[videos[1]].t - X.video[videos[1]].t) > SeekEpsilon)
          ELSE adjustVideoTime(X, -SeekSeconds, nowv)

\* tryPlayPauseFallback of content.js: it ends by pressing the space key on
\* the document itself and returns true on every path.
tryPlayPauseFallbackV1(X, lay, i) ==
  LET dom == lay.dom[i]
      idx == [k \in 1..Len(dom.buttons) |-> k]
      directButton == findExactButton(dom, "play-pause")
      IsPlyr(k) == dom.buttons[k].dataPlyr = "play"
      Skip(b) ==
        \/ b.btype = "submit" \/ b.haspopup \/ includes(b.text, <<"Search">>)
        \/ includes(b.cls, <<"rounded-lg", "bg-dark-400">>)
        \/ HasAnyWord(b.cls, {"mr-5"})
      IsSafe(k) ==
        /\ ~Skip(dom.buttons[k])
        /\ \/ dom.buttons[k].useHref \in {"#plyr-play", "#plyr-pause"}
           \/ ScreenReaderSpan(dom.buttons[k], <<"Play">>)
           \/ ScreenReaderSpan(dom.buttons[k], <<"Pause">>)
      validButtons ==
        Dedup(Ascending({n \in DOMAIN idx : IsPlyr(n)})
                \o Ascending({n \in DOMAIN idx : IsSafe(n)}))
      videos == DocumentVideos(lay, i)
  IN IF directButton # 0 THEN tryButtonClickV1(X, dom, directButton)
     ELSE IF validButtons # << >> THEN tryButtonClickV1(X, dom, validButtons[1])
     ELSE IF videos # << >> THEN Result(Toggle(X, videos[1]), TRUE)
     ELSE Result([X EXCEPT !.keys = Append(@, KeyEvent("keydown", " ", "document")),
                           !.timers = Append(@, Timer(KeyDelayMs, "keyup", " ", "document"))],
                 TRUE)

\* tryPlayPauseFallback of part_001 (the focused element is the body).
tryPlayPauseFallbackV2(X, lay, i) ==
  LET dom == lay.dom[i]
      IsPlyr(b) == b.dataPlyr = "play"
      HasIcon(b) == b.useHref \in {"#plyr-play", "#plyr-pause"}
      plyrButton == First({n \in 1..Len(dom.buttons) : IsPlyr(dom.buttons[n])})
      iconButton == First({n \in 1..Len(dom.buttons) : HasIcon(dom.buttons[n])})
      videos == DocumentVideos(lay, i)
  IN IF plyrButton # 0 THEN Result(Dispatch(X, plyrButton, <<"click">>), TRUE)
     ELSE IF iconButton # 0 THEN Result(Dispatch(X, iconButton, <<"click">>), TRUE)
     ELSE IF videos # << >> THEN Result(Toggle(X, videos[1]), TRUE)
     ELSE Result([X EXCEPT !.keys = Append(@, KeyEvent("keydown", " ", "activeElement")),
                           !.timers = Append(@, Timer(KeyDelayMs, "keyup", " ", "activeElement"))],
                 TRUE)

\* keyMap of tryKeyboardMethod.
MainKey(command) ==
  CASE command = "fast-forward" -> "ArrowRight"
    [] command = "rewind" -> "ArrowLeft"
    [] command = "play-pause" -> " "

AltKey(command) ==
  CASE command = "fast-forward" -> "L"
    [] command = "rewind" -> "J"
    [] command = "play-pause" -> "K"

LowerKey(command) ==
  CASE command = "fast-forward" -> "l"
    [] command = "rewind" -> "j"
    [] command = "play-pause" -> "k"

\* tryKeyboardMethod, the element the key events are aimed at.
KeyTarget(dom) ==
  IF dom.videos # << >> THEN "video"
  ELSE IF dom.playerEl THEN "player"
  ELSE IF \E g \in 1..Len(dom.groups) :
            dom.groups[g] \in {"plyr__controls", "ytp-chrome-controls", "vjs-control-bar"}
       THEN "controls"
  ELSE "document"

\* A keyboard strategy that reports failure; C8 does not hold of it.
tryKeyboardMethodFails(X, dom, command) == Result(X, FALSE)

\* tryKeyboardMethod: the main key goes down on the target and on the
\* document now; everything else happens in timers.  It returns true.
tryKeyboardMethod(X, dom, command) ==
  LET target == KeyTarget(dom)
  IN Result([X EXCEPT !.keys = @ \o << KeyEvent("keydown", MainKey(command), target),
                                       KeyEvent("keydown", MainKey(command), "document") >>,
                      !.timers = Append(@, Timer(KeyDelayMs, "keyup-main", command, target))],
            TRUE)

\* The names of the five strategies, in the order of performVideoControl.
Strategies == <<"exact", "group", "html5", "fallback", "keyboard">>

Tried(X, strategy) == [X EXCEPT !.trace = Append(@, <<strategy, X.ok>>)]

\* Strategy 1: the exact button, if there is one, is clicked.
ExactStrategy(X, lay, i, command, variant) ==
  LET exactButton == findExactButton(lay.dom[i], command)
  IN Tried(tryButtonClick(X, lay.dom[i], exactButton, variant), "exact")

\* Strategy 2: the control containers in turn; the first container with a
\* matching button has that button clicked.
RECURSIVE GroupLoop(_, _, _, _, _, _)
GroupLoop(X, dom, patterns, k, command, variant) ==
  IF k > Len(patterns) THEN Result(X, FALSE)
  ELSE LET foundButton == GroupButton(dom, patterns[k], command)
           X1 == tryButtonClick(X, dom, foundButton, variant)
       IN IF foundButton # 0 /\ X1.ok THEN X1
          ELSE GroupLoop(X, dom, patterns, k + 1, command, variant)

GroupStrategy(X, lay, i, command, variant) ==
  Tried(GroupLoop(X, lay.dom[i], trySpecificPlayerPatterns(lay.dom[i]), 1, command, variant),
        "group")

\* Strategy 3: the media element itself.
Html5Strategy(X, lay, i, command, variant, nowv) ==
  Tried(tryHTML5VideoMethod(X, lay, i, command, variant, nowv), "html5")

\* Strategy 4: the command's own last-resort search.
FallbackStrategy(X, lay, i, command, variant, nowv) ==
  Tried(CASE command = "rewind" -> tryRewindFallback(X, lay, i, variant, nowv)
          [] command = "play-pause" ->
               IF variant = "content" THEN tryPlayPauseFallbackV1(X, lay, i)
               ELSE tryPlayPauseFallbackV2(X, lay, i)
          [] command = "fast-forward" -> tryFastForwardSafely(X, lay.dom[i]),
        "fallback")

\* Strategy 5: key events.
KeyboardStrategy(X, lay, i, command) ==
  Tried(tryKeyboardMethod(X, lay.dom[i], command), "keyboard")

\* A chain that tries the media element before the exact button; C7 does not
\* hold of it.
performVideoControlHtml5First(X, lay, i, command, variant, nowv) ==
  LET X1 == Html5Strategy(X, lay, i, command, variant, nowv)
      X2 == ExactStrategy(X1, lay, i, command, variant)
      X3 == GroupStrategy(X2, lay, i, command, variant)
      X4 == FallbackStrategy(X3, lay, i, command, variant, nowv)
      X5 == KeyboardStrategy(X4, lay, i, command)
  IN IF X1.ok THEN X1
     ELSE IF X2.ok THEN X2
     ELSE IF X3.ok THEN X3
     ELSE IF X4.ok THEN X4
     ELSE X5

\* performVideoControl: each strategy runs on what its predecessors left and
\* only if they all returned false.  The result is the run with ok set to the
\* function's return value.
performVideoControl(X, lay, i, command, variant, nowv) ==
  LET X1 == ExactStrategy(X, lay, i, command, variant)
      X2 == GroupStrategy(X1, lay, i, command, variant)
      X3 == Html5Strategy(X2, lay, i, command, variant, nowv)
      X4 == FallbackStrategy(X3, lay, i, command, variant, nowv)
      X5 == KeyboardStrategy(X4, lay, i, command)
  IN IF X1.ok THEN X1
     ELSE IF X2.ok THEN X2
     ELSE IF X3.ok THEN X3
     ELSE IF X4.ok THEN X4
     ELSE X5

\* The play-pause branch of the part_001 listener, which never calls
\* performVideoControl: the first playing (else the first) media element of
\* the document is toggled, the exact button is clicked as well, and the
\* space key is pressed if neither set `success`.  play() sets `success` only
\* in a promise callback, after the listener has read it.
PlayPauseBranch(X, lay, i) ==
  LET dom == lay.dom[i]
      videos == DocumentVideos(lay, i)
      IsPlaying(v) == ~X.video[v].paused
      playing == First({n \in 1..Len(videos) : IsPlaying(videos[n])})
      video == IF videos = << >> THEN 0
               ELSE IF playing # 0 THEN videos[playing] ELSE videos[1]
      paused == video # 0 /\ X.video[video].paused
      X1 == IF video = 0 THEN X ELSE Toggle(X, video)
      success1 == video # 0 /\ ~paused
      exactButton == findExactButton(dom, "play-pause")
      X2 == IF exactButton # 0 THEN tryButtonClickV2(X1, dom, exactButton) ELSE X1
      success2 == success1 \/ exactButton # 0
      X3 == IF success2 THEN X2
            ELSE [X2 EXCEPT !.keys = Append(@, KeyEvent("keydown", " ", "document")),
                            !.timers = Append(@, Timer(KeyDelayMs, "keyup", " ", "document"))]
  IN Result(X3, TRUE)

\* ------------------------------------------------------------ page state

VARIABLES
  variant,               \* which copy of the content script runs in the page
  relay,                 \* which copy of the relay sends the messages
  layout,                \* the page (static): the frames' DOM
  video,                 \* the media elements' state
  isProcessingCommand,   \* per instance: content.js:10
  cachedVideoElement,    \* per instance: content.js:43 (0 is null)
  lastTimeAdjustment,    \* per instance: part_001:1318
  listeners,             \* per instance: the messages whose preventHandler is installed
  storage,               \* localStorage, shared by the instances
  now,                   \* Date.now()
  msgs,                  \* the controlVideo messages sent so far
  inbox,                 \* deliveries pending: <<message, instance>>
  timers,                \* pending setTimeout callbacks, in creation order
  responses,             \* sendResponse calls, in order
  keylog,                \* keyboard events dispatched, in order
  ran,                   \* <<message, instance>> pairs that started acting
  last,                  \* what the latest listener invocation did
  relayIsProcessingCommand, \* the relay's isProcessingCommand: background.js:2
  lastCommandTimestamp,  \* background.js:8
  acts,                  \* the accepted shortcut activations and what each did
  relayTimers,           \* the relay's pending setTimeout callbacks
  mediaList,             \* a list of media elements handed to the bestVideo loop
  selected,              \* the element the loop picked from it (0: not run yet)
  directRun,             \* the calls of executeCommandDirectly in the page so far
  invocation             \* per instance: the listener invocation, step by step

vars ==
  << variant, relay, layout, video, isProcessingCommand, cachedVideoElement,
     lastTimeAdjustment, listeners, storage, now, msgs, inbox, timers,
     responses, keylog, ran, last, relayIsProcessingCommand,
     lastCommandTimestamp, acts, relayTimers, mediaList, selected, directRun,
     invocation >>

relayVars == << relayIsProcessingCommand, lastCommandTimestamp, acts, relayTimers >>

selectVars == << mediaList, selected, directRun, invocation >>

scriptVars ==
  << variant, layout, video, isProcessingCommand, cachedVideoElement,
     lastTimeAdjustment, listeners, storage, msgs, inbox, timers, responses,
     keylog, ran, last >>

pageVars == << scriptVars, selectVars >>

NoLock == << >>

\* localStorage: the lock id and expiry of acquireCommandLock and the
\* timestamp of part_001's duplicate check; 0 stands for a missing item.
EmptyStorage == [lock |-> NoLock, expiry |-> 0, lastTs |-> 0, lastExecution |-> 0]

\* An acquireCommandLock that never looks at the expiry; C23 does not hold of
\* it.
acquireCommandLockNoExpiry(st, i, nowv) ==
  IF st.lock # NoLock
  THEN [ok |-> FALSE, storage |-> st]
  ELSE LET lockId == <<nowv, i>>
           st1 == [st EXCEPT !.lock = lockId, !.expiry = nowv + LockExpiryMs]
       IN [ok |-> st1.lock = lockId, storage |-> st1]

\* acquireCommandLock: refused while a lock with a later expiry is stored;
\* otherwise a fresh id and an expiry one second ahead are written and the id
\* is read back.
acquireCommandLock(st, i, nowv) ==
  IF st.lock # NoLock /\ st.expiry # 0 /\ st.expiry > nowv
  THEN [ok |-> FALSE, storage |-> st]
  ELSE LET lockId == <<nowv, i>>
           st1 == [st EXCEPT !.lock = lockId, !.expiry = nowv + LockExpiryMs]
       IN [ok |-> st1.lock = lockId, storage |-> st1]

releaseCommandLock(st) == [st EXCEPT !.lock = NoLock, !.expiry = 0]

\* A listener invocation of the step-by-step lock model: where it stands, the
\* timestamp of its message, what acquireCommandLock has read and written, the
\* time at which it returned true, the lock releaseCommandLock removed, the
\* keys the invocation has written, and how it ended.
NoInvocation ==
  [ pc |-> "idle", handled |-> 0, timestamp |-> 0, currentLock |-> NoLock,
    lockId |-> NoLock, acquiredAt |-> 0, removed |-> NoLock, wrote |-> {},
    outcome |-> "" ]

\* No call of executeCommandDirectly has been made.
NoDirect ==
  [ calls |-> 0, command |-> "", timestamp |-> 0, latest |-> 0, before |-> 0,
    result |-> FALSE, log |-> << >>, pending |-> << >> ]

Idle ==
  [ inst |-> 0, msg |-> 0, command |-> "", outcome |-> "idle", success |-> FALSE,
    trace |-> << >>, clicks |-> << >>, media |-> << >>, keys |-> << >> ]

Init ==
  /\ variant \in Variants
  /\ relay \in Relays
  /\ <<variant, relay>> \in Installs
  /\ layout \in Layouts
  /\ video = layout.video
  /\ isProcessingCommand = [i \in Instances |-> FALSE]
  /\ cachedVideoElement = [i \in Instances |-> 0]
  /\ lastTimeAdjustment = [i \in Instances |-> 0]
  /\ listeners = [i \in Instances |-> {}]
  /\ storage = EmptyStorage
  /\ now = StartTime
  /\ msgs = << >>
  /\ inbox = {}
  /\ timers = << >>
  /\ responses = [d \in (1..MaxMsgs) \X Instances |-> << >>]
  /\ keylog = << >>
  /\ ran = {}
  /\ last = Idle
  /\ relayIsProcessingCommand = FALSE
  /\ lastCommandTimestamp = 0
  /\ acts = << >>
  /\ relayTimers = << >>
  /\ mediaList = << >>
  /\ selected = 0
  /\ directRun = NoDirect
  /\ invocation = [i \in Instances |-> NoInvocation]

\* sendCommandToContentScript: the relay sends one controlVideo message to
\* the tab and the listener of every frame receives it.  A missing timestamp
\* is 0 here.
Send(command) ==
  /\ Len(msgs) < MaxMsgs
  /\ msgs' = Append(msgs, [ command |-> command,
                            timestamp |-> IF relay = "background" THEN now ELSE 0 ])
  /\ inbox' = inbox \cup {<<Len(msgs) + 1, i>> : i \in layout.frames}
  /\ UNCHANGED << relayVars, selectVars, variant, relay, layout, video,
                  isProcessingCommand, cachedVideoElement, lastTimeAdjustment, listeners, storage, now,
                  timers, responses, keylog, ran, last >>

\* ---------------------------------------------------- the message listener

\* A listener without the re-entrancy guard; C1 does not hold of it.
DuplicateInstanceOff(flag) == FALSE

\* The listener's first guard: this instance is in the middle of a command.
DuplicateInstance(flag) == flag

\* part_001 only: the message carries a timestamp and it is less than the
\* duplicate window after the stored one.  content.js has no such check.
ChecksTimestamp(v, msg) == v = "part001" /\ msg.timestamp # 0

DuplicateTimestamp(v, msg, st) ==
  ChecksTimestamp(v, msg) /\ msg.timestamp - st.lastTs < DuplicateWindowMs

\* localStorage after the timestamp check has let the message through.
StoreTimestamp(v, msg, st) ==
  IF ChecksTimestamp(v, msg) THEN [st EXCEPT !.lastTs = msg.timestamp] ELSE st

\* setTimeout calls of a run, with the time they are due.
Scheduled(X, i, m) ==
  [k \in 1..Len(X.timers) |->
     [ inst |-> i, msg |-> m, due |-> now + X.timers[k].delay,
       kind |-> X.timers[k].kind, key |-> X.timers[k].key, target |-> X.timers[k].target ]]

\* A cleanup timer set for the moment of the second key timer; C28 does not
\* hold of it.
CleanupTimerEarly(i, m) ==
  [ inst |-> i, msg |-> m, due |-> now + 2 * KeyDelayMs,
    kind |-> "cleanup", key |-> "", target |-> "" ]

CleanupTimer(i, m) ==
  [ inst |-> i, msg |-> m, due |-> now + CleanupDelayMs,
    kind |-> "cleanup", key |-> "", target |-> "" ]

Logged(X, i, m) ==
  [k \in 1..Len(X.keys) |->
     [ inst |-> i, msg |-> m, guarded |-> TRUE, type |-> X.keys[k].type,
       key |-> X.keys[k].key, target |-> X.keys[k].target ]]

Response(m, i, success, reason) ==
  [msg |-> m, inst |-> i, success |-> success, reason |-> reason]

\* What the listener does with an accepted command: part_001 handles
\* play-pause itself, everything else goes through performVideoControl.
Execute(i, command) ==
  LET X == NewRun(video, cachedVideoElement[i], lastTimeAdjustment[i])
  IN IF variant = "part001" /\ command = "play-pause"
     THEN PlayPauseBranch(X, layout, i)
     ELSE performVideoControl(X, layout, i, command, variant, now)

\* A guard turns the message away: sendResponse({success: false, reason}).
Reject(i, m, reason, st) ==
  /\ responses' = [responses EXCEPT ![<<m, i>>] = Append(@, Response(m, i, FALSE, reason))]
  /\ storage' = st
  /\ last' = [Idle EXCEPT !.inst = i, !.msg = m, !.command = msgs[m].command,
                          !.outcome = reason]
  /\ UNCHANGED << video, isProcessingCommand, cachedVideoElement, lastTimeAdjustment,
                  listeners, timers, keylog, ran >>

\* The command runs to its end: the flag is set and cleared, the lock taken
\* and removed, the suppression listeners are installed and their removal is
\* scheduled, and the result is sent back.
Complete(i, m, st) ==
  LET X == Execute(i, msgs[m].command)
  IN /\ video' = X.video
     /\ cachedVideoElement' = [cachedVideoElement EXCEPT ![i] = X.cache]
     /\ lastTimeAdjustment' = [lastTimeAdjustment EXCEPT ![i] = X.lta]
     /\ isProcessingCommand' = [isProcessingCommand EXCEPT ![i] = FALSE]
     /\ storage' = releaseCommandLock(st)
     /\ listeners' = [listeners EXCEPT ![i] = @ \cup {m}]
     /\ timers' = timers \o Scheduled(X, i, m) \o << CleanupTimer(i, m) >>
     /\ keylog' = keylog \o Logged(X, i, m)
     /\ responses' = [responses EXCEPT ![<<m, i>>] = Append(@, Response(m, i, X.ok, ""))]
     /\ ran' = ran \cup {<<m, i>>}
     /\ last' = [ inst |-> i, msg |-> m, command |-> msgs[m].command,
                  outcome |-> "done", success |-> X.ok, trace |-> X.trace,
                  clicks |-> X.clicks, media |-> X.media, keys |-> X.keys ]

\* An exception escapes the command before any strategy has acted.  content.js
\* has no handler for it: the flag stays set, the lock stays in storage, the
\* suppression listeners stay installed and no response is sent.  part_001
\* catches it: flag cleared, lock removed, {success: false, error} sent; the
\* removal of the suppression listeners was never scheduled.
Throw(i, m, st) ==
  /\ isProcessingCommand' = [isProcessingCommand EXCEPT ![i] = (variant = "content")]
  /\ storage' = IF variant = "content" THEN st ELSE releaseCommandLock(st)
  /\ listeners' = [listeners EXCEPT ![i] = @ \cup {m}]
  /\ responses' = IF variant = "content" THEN responses
                  ELSE [responses EXCEPT ![<<m, i>>] = Append(@, Response(m, i, FALSE, "error"))]
  /\ ran' = ran \cup {<<m, i>>}
  /\ last' = [Idle EXCEPT !.inst = i, !.msg = m, !.command = msgs[m].command,
                          !.outcome = "threw"]
  /\ UNCHANGED << video, cachedVideoElement, lastTimeAdjustment, timers, keylog >>

\* localStorage itself raises (storage is denied to the frame) at the
\* listener's first access to it: the timestamp check of part_001,
\* acquireCommandLock otherwise.  Both calls stand outside any try block in
\* both copies, so the listener ends there: nothing is written and no
\* response is sent.
StorageThrow(i, m) ==
  /\ last' = [Idle EXCEPT !.inst = i, !.msg = m, !.command = msgs[m].command,
                          !.outcome = "storage-threw"]
  /\ UNCHANGED << video, isProcessingCommand, cachedVideoElement, lastTimeAdjustment,
                  listeners, storage, timers, responses, keylog, ran >>

\* chrome.runtime.onMessage listener, action 'controlVideo', at instance i.
OnControlVideo(i, m) ==
  /\ <<m, i>> \in inbox
  /\ inbox' = inbox \ {<<m, i>>}
  /\ LET msg == msgs[m]
         st1 == StoreTimestamp(variant, msg, storage)
         acq == acquireCommandLock(st1, i, now)
     IN IF DuplicateInstance(isProcessingCommand[i])
        THEN Reject(i, m, "duplicate-instance", storage)
        ELSE \/ Fragile(layout) /\ StorageThrow(i, m)
             \/ IF DuplicateTimestamp(variant, msg, storage)
                THEN Reject(i, m, "duplicate-timestamp", storage)
                ELSE IF ~acq.ok
                THEN Reject(i, m, "locked", st1)
                ELSE \/ Complete(i, m, acq.storage)
                     \/ Fragile(layout) /\ Throw(i, m, acq.storage)
  /\ UNCHANGED << relayVars, selectVars, variant, relay, layout, now, msgs >>

\* ------------------------------------------------------------------ timers

\* A timer may run once it is due and no timer due earlier, or due at the
\* same time and created earlier, is pending.
Runnable(k) ==
  /\ timers[k].due <= now
  /\ \A j \in 1..Len(timers) :
       \/ timers[j].due > timers[k].due
       \/ (timers[j].due = timers[k].due /\ j >= k)

Without(s, k) == SubSeq(s, 1, k - 1) \o SubSeq(s, k + 1, Len(s))

KeyLogEntry(t, type, key, target) ==
  [ inst |-> t.inst, msg |-> t.msg, guarded |-> t.msg \in listeners[t.inst],
    type |-> type, key |-> key, target |-> target ]

\* The events a key timer dispatches, and the timer it sets in turn
\* (tryKeyboardMethod's nested setTimeout callbacks; the single key-up of
\* adjustVideoTime and of the space-key fallbacks).
TimerKeys(t) ==
  CASE t.kind = "keyup-main" ->
         << KeyLogEntry(t, "keyup", MainKey(t.key), t.target),
            KeyLogEntry(t, "keyup", MainKey(t.key), "document"),
            KeyLogEntry(t, "keydown", AltKey(t.key), t.target),
            KeyLogEntry(t, "keydown", AltKey(t.key), "document") >>
    [] t.kind = "keyup-alt" ->
         << KeyLogEntry(t, "keyup", AltKey(t.key), t.target),
            KeyLogEntry(t, "keyup", AltKey(t.key), "document"),
            KeyLogEntry(t, "keydown", LowerKey(t.key), t.target),
            KeyLogEntry(t, "keydown", LowerKey(t.key), "document") >>
    [] t.kind = "keyup-lower" ->
         << KeyLogEntry(t, "keyup", LowerKey(t.key), t.target),
            KeyLogEntry(t, "keyup", LowerKey(t.key), "document") >>
    [] t.kind = "keyup" -> << KeyLogEntry(t, "keyup", t.key, t.target) >>
    [] OTHER -> << >>

\* A callback that sets no further timer; C19 does not hold of it.
TimerNextNone(t) == << >>

TimerNext(t) ==
  CASE t.kind = "keyup-main" -> << [t EXCEPT !.kind = "keyup-alt", !.due = now + KeyDelayMs] >>
    [] t.kind = "keyup-alt" -> << [t EXCEPT !.kind = "keyup-lower", !.due = now + KeyDelayMs] >>
    [] OTHER -> << >>

\* A key timer fires.
KeyTimer(k) ==
  /\ k \in 1..Len(timers)
  /\ Runnable(k)
  /\ timers[k].kind # "cleanup"
  /\ keylog' = keylog \o TimerKeys(timers[k])
  /\ timers' = Without(timers, k) \o TimerNext(timers[k])
  /\ UNCHANGED << relayVars, selectVars, variant, relay, layout, video,
                  isProcessingCommand, cachedVideoElement, lastTimeAdjustment, listeners, storage, now,
                  msgs, inbox, responses, ran, last >>

\* The listener's cleanup timer removes the suppression listeners of its
\* invocation.
CleanupListeners(k) ==
  /\ k \in 1..Len(timers)
  /\ Runnable(k)
  /\ timers[k].kind = "cleanup"
  /\ listeners' = [listeners EXCEPT ![timers[k].inst] = @ \ {timers[k].msg}]
  /\ timers' = Without(timers, k)
  /\ UNCHANGED << relayVars, selectVars, variant, relay, layout, video,
                  isProcessingCommand, cachedVideoElement, lastTimeAdjustment, storage, now, msgs, inbox,
                  responses, keylog, ran, last >>

\* The clock starts with the first command, and a message in flight reaches
\* every listener before the clock moves (delivery takes well under the
\* 50 ms of the shortest timer).  While no timer is pending it
\* moves in steps that take it past the duplicate window and, in two steps,
\* to the expiry of a lock.
TickSteps == {500}

Tick(d) ==
  /\ msgs # << >>
  /\ inbox = {}
  /\ timers = << >>
  /\ now + d <= MaxTime
  /\ now' = now + d
  /\ UNCHANGED << relayVars, selectVars, variant, relay, layout, video,
                  isProcessingCommand, cachedVideoElement, lastTimeAdjustment, listeners, storage, msgs,
                  inbox, timers, responses, keylog, ran, last >>

\* While timers are pending the clock moves to the moment the next is due.
Elapse ==
  /\ inbox = {}
  /\ timers # << >>
  /\ \A k \in 1..Len(timers) : timers[k].due > now
  /\ now' = CHOOSE t \in {timers[k].due : k \in 1..Len(timers)} :
               \A k \in 1..Len(timers) : t <= timers[k].due
  /\ UNCHANGED << relayVars, selectVars, variant, relay, layout, video,
                  isProcessingCommand, cachedVideoElement, lastTimeAdjustment, listeners, storage, msgs,
                  inbox, timers, responses, keylog, ran, last >>

Next ==
  \/ \E c \in Commands : Send(c)
  \/ \E i \in Instances, m \in 1..MaxMsgs : OnControlVideo(i, m)
  \/ \E k \in 1..Len(timers) : KeyTimer(k)
  \/ \E k \in 1..Len(timers) : CleanupListeners(k)
  \/ \E d \in TickSteps : Tick(d)
  \/ Elapse

Spec == Init /\ [][Next]_vars

\* ------------------------------------------------- the page under fairness

\* The page on which every command ends in key events: nothing to control at
\* all, and a media element that stands at its end.
InitKeys ==
  /\ Init
  /\ \/ layout = EmptyLayout
     \/ layout.name = "one-video" /\ layout.video[1].t = Duration

\* The browser runs every timer callback that is due, time passes, and
\* every delivery is handled: a listener is always ready to run, and the
\* messages being finitely many, weak fairness of OnControlVideo comes to the
\* inbox being empty again and again.
Fairness ==
  /\ []<>(inbox = {})
  /\ WF_vars(\E k \in 1..Len(timers) : KeyTimer(k))
  /\ WF_vars(\E k \in 1..Len(timers) : CleanupListeners(k))
  /\ WF_vars(Elapse)

SpecKeys == InitKeys /\ [][Next]_vars /\ Fairness

\* ------------------------------------------------------------------- ping

\* A listener that sends a ping through the guards of a command; C16 does
\* not hold of it.
PingEffectGuarded(i) ==
  LET acq == acquireCommandLock(storage, i, now)
  IN [ success |-> ~isProcessingCommand[i] /\ acq.ok,
       flag |-> isProcessingCommand[i],
       storage |-> acq.storage,
       cache |-> cachedVideoElement[i] ]

\* chrome.runtime.onMessage listener, action 'ping': the answer, and the
\* flag, the storage and the cache as the listener leaves them.
PingEffect(i) ==
  [ success |-> TRUE,
    flag |-> isProcessingCommand[i],
    storage |-> storage,
    cache |-> cachedVideoElement[i] ]

\* The relay's ping reaches the listener of frame i.
OnPing(i) ==
  /\ i \in layout.frames
  /\ last' = [Idle EXCEPT !.inst = i, !.outcome = "pong", !.success = PingEffect(i).success]
  /\ isProcessingCommand' = [isProcessingCommand EXCEPT ![i] = PingEffect(i).flag]
  /\ storage' = PingEffect(i).storage
  /\ cachedVideoElement' = [cachedVideoElement EXCEPT ![i] = PingEffect(i).cache]
  /\ UNCHANGED << relayVars, selectVars, variant, relay, layout, video,
                  lastTimeAdjustment, listeners, now, msgs, inbox, timers, responses,
                  keylog, ran >>

\* The page with the relay's pings: content.js on the page where a command
\* can end in an exception, and part_001 on the page with a media element in
\* an iframe.
InitPing ==
  /\ Init
  /\ \/ layout = FragileLayout /\ variant = "content"
     \/ layout = IframeVideoLayout /\ variant = "part001"

NextPing ==
  \/ Next
  \/ \E i \in Instances : OnPing(i)

SpecPing == InitPing /\ [][NextPing]_vars

\* ------------------------------------------------- the choice of an element

\* Longest list of media elements handed to the bestVideo loop.
MaxMedia == 3

\* Durations of the elements of such a list: unknown (0), short, long.
MediaDurations == {0, 50, Duration}

MediaStates == {Video(p, 0, d, TRUE) : p \in BOOLEAN, d \in MediaDurations}

MediaLists == UNION {[1..n -> MediaStates] : n \in 1..MaxMedia}

\* tryHTML5VideoMethod's bestVideo loop on its own, run once on a list.
SelectBest ==
  /\ selected = 0
  /\ selected' = PickBest([k \in 1..Len(mediaList) |-> k], mediaList, 1, 1, 0)
  /\ UNCHANGED << relayVars, scriptVars, relay, now, mediaList, directRun, invocation >>

InitSelect ==
  /\ variant = "content"
  /\ relay = "background"
  /\ layout = EmptyLayout
  /\ video = layout.video
  /\ isProcessingCommand = [i \in Instances |-> FALSE]
  /\ cachedVideoElement = [i \in Instances |-> 0]
  /\ lastTimeAdjustment = [i \in Instances |-> 0]
  /\ listeners = [i \in Instances |-> {}]
  /\ storage = EmptyStorage
  /\ now = StartTime
  /\ msgs = << >>
  /\ inbox = {}
  /\ timers = << >>
  /\ responses = [d \in (1..MaxMsgs) \X Instances |-> << >>]
  /\ keylog = << >>
  /\ ran = {}
  /\ last = Idle
  /\ relayIsProcessingCommand = FALSE
  /\ lastCommandTimestamp = 0
  /\ acts = << >>
  /\ relayTimers = << >>
  /\ mediaList \in MediaLists
  /\ selected = 0
  /\ directRun = NoDirect
  /\ invocation = [i \in Instances |-> NoInvocation]

NextSelect == SelectBest

SpecSelect == InitSelect /\ [][NextSelect]_vars

\* The page on which the command can raise, under the fairness of the
\* browser's event loop.
InitFragile == Init /\ layout = FragileLayout

SpecFragile == InitFragile /\ [][Next]_vars /\ Fairness

\* ---------------------------------------------------------------- the relay

\* The relay on its own: the page is its environment, which answers the ping
\* or not, lets the injection through or not, and answers controlVideo at a
\* time of its choosing.

\* background.js:16, the relay's debounce window.
DebounceMs == 500

\* background.js:84, the settle delay after an injection.
SettleDelayMs == 200

\* Delay of the release timer on the ping-throw path (both copies).
ThrowReleaseMs == 500

\* Delay of the release timer after an answer or after the direct fallback:
\* 500 ms in background.js, 300 ms in part_002.
ReleaseDelayMs(r) == IF r = "background" THEN 500 ELSE 300

\* An accepted activation: where it stands, what the relay has done for it so
\* far, the relay's time at which it was accepted, and the times at which its
\* injection succeeded and its command was sent (0 before that).
Activation(command) ==
  [command |-> command, pc |-> "query", log |-> << >>, acceptedAt |-> now,
   injectedAt |-> 0, sentAt |-> 0]

RelayTimer(kind, a, delay) == [kind |-> kind, act |-> a, due |-> now + delay]

Act(a, pc, events) ==
  [acts EXCEPT ![a].pc = pc,
               ![a].log = @ \o events,
               ![a].injectedAt = IF pc = "settle" THEN now ELSE @,
               ![a].sentAt = IF pc = "controlVideo" THEN now ELSE @]

\* The debounce timer of an accepted activation replaces the pending one.
SetDebounce(ts, a) ==
  LET kept == Ascending({n \in 1..Len(ts) : ts[n].kind # "debounce"})
  IN [k \in 1..Len(kept) |-> ts[kept[k]]] \o << RelayTimer("debounce", a, DebounceMs) >>

\* background.js drops an activation less than the debounce window after the
\* recorded one; part_002 has no such check.
TooSoonNever(r, ts, nowv) == FALSE

TooSoon(r, ts, nowv) == r = "background" /\ nowv - ts < DebounceMs

\* chrome.commands.onCommand listener, up to the call of chrome.tabs.query.
OnCommand(command) ==
  /\ IF TooSoon(relay, lastCommandTimestamp, now)
     THEN UNCHANGED relayVars
     ELSE /\ lastCommandTimestamp' = IF relay = "background" THEN now
                                     ELSE lastCommandTimestamp
          /\ IF relayIsProcessingCommand
             THEN UNCHANGED << relayIsProcessingCommand, acts, relayTimers >>
             ELSE /\ Len(acts) < MaxActs
                  /\ relayIsProcessingCommand' = TRUE
                  /\ acts' = Append(acts, Activation(command))
                  /\ relayTimers' =
                       IF relay = "background"
                       THEN SetDebounce(relayTimers, Len(acts) + 1)
                       ELSE relayTimers
  /\ UNCHANGED << pageVars, relay, now >>

\* The callback of chrome.tabs.query: no active tab; or the ping is sent; or
\* sending it throws, and then the injection is started and the release timer
\* is set at once.
QueryResult(a, hasTab, throws) ==
  /\ a \in 1..Len(acts)
  /\ acts[a].pc = "query"
  /\ IF ~hasTab
     THEN /\ relayIsProcessingCommand' = FALSE
          /\ acts' = Act(a, "done", << "no-tab" >>)
          /\ UNCHANGED relayTimers
     ELSE IF throws
     THEN /\ acts' = Act(a, "inject", << "ping-threw", "inject" >>)
          /\ relayTimers' = Append(relayTimers, RelayTimer("release", a, ThrowReleaseMs))
          /\ UNCHANGED relayIsProcessingCommand
     ELSE /\ acts' = Act(a, "ping", << "ping" >>)
          /\ UNCHANGED << relayIsProcessingCommand, relayTimers >>
  /\ UNCHANGED << pageVars, relay, now, lastCommandTimestamp >>

\* The callback of the ping: a response sends the command, lastError or no
\* response starts the injection.
PingResult(a, alive) ==
  /\ a \in 1..Len(acts)
  /\ acts[a].pc = "ping"
  /\ acts' = IF alive
             THEN Act(a, "controlVideo", << "ping-answered", "controlVideo" >>)
             ELSE Act(a, "inject", << "ping-failed", "inject" >>)
  /\ UNCHANGED << pageVars, relay, now, relayIsProcessingCommand,
                  lastCommandTimestamp, relayTimers >>

\* An injection callback that sends the command without the settle delay; C5
\* does not hold of it.
InjectResultEager(a, ok) ==
  /\ a \in 1..Len(acts)
  /\ acts[a].pc = "inject"
  /\ acts' = IF ok
             THEN [Act(a, "controlVideo", << "inject-ok", "controlVideo" >>)
                     EXCEPT ![a].injectedAt = now]
             ELSE Act(a, "direct", << "inject-failed", "direct" >>)
  /\ UNCHANGED << pageVars, relay, now, relayIsProcessingCommand,
                  lastCommandTimestamp, relayTimers >>

\* An injection callback that also runs the direct fallback after a
\* successful injection; C6 does not hold of it.
InjectResultAlsoDirect(a, ok) ==
  /\ a \in 1..Len(acts)
  /\ acts[a].pc = "inject"
  /\ IF ok
     THEN /\ acts' = Act(a, "settle", << "inject-ok", "direct" >>)
          /\ relayTimers' = Append(relayTimers, RelayTimer("settle", a, SettleDelayMs))
     ELSE /\ acts' = Act(a, "direct", << "inject-failed", "direct" >>)
          /\ UNCHANGED relayTimers
  /\ UNCHANGED << pageVars, relay, now, relayIsProcessingCommand, lastCommandTimestamp >>

\* injectContentScriptAndSendCommand's promise settles: .then sets the settle
\* timer, .catch runs executeCommandDirectly in the tab.
InjectResult(a, ok) ==
  /\ a \in 1..Len(acts)
  /\ acts[a].pc = "inject"
  /\ IF ok
     THEN /\ acts' = Act(a, "settle", << "inject-ok" >>)
          /\ relayTimers' = Append(relayTimers, RelayTimer("settle", a, SettleDelayMs))
     ELSE /\ acts' = Act(a, "direct", << "inject-failed", "direct" >>)
          /\ UNCHANGED relayTimers
  /\ UNCHANGED << pageVars, relay, now, relayIsProcessingCommand, lastCommandTimestamp >>

\* A relay timer may run once it is due and none due earlier is pending.
RelayRunnable(k) ==
  /\ k \in 1..Len(relayTimers)
  /\ relayTimers[k].due <= now
  /\ \A j \in 1..Len(relayTimers) :
       \/ relayTimers[j].due > relayTimers[k].due
       \/ (relayTimers[j].due = relayTimers[k].due /\ j >= k)

\* The settle timer: sendCommandToContentScript.
SettleTimer(k) ==
  /\ RelayRunnable(k)
  /\ relayTimers[k].kind = "settle"
  /\ acts' = Act(relayTimers[k].act, "controlVideo", << "controlVideo" >>)
  /\ relayTimers' = Without(relayTimers, k)
  /\ UNCHANGED << pageVars, relay, now, relayIsProcessingCommand, lastCommandTimestamp >>

\* A controlVideo callback that sets no release timer; C25 does not hold of
\* it.
ControlVideoAnswerNoRelease(a) ==
  /\ a \in 1..Len(acts)
  /\ acts[a].pc = "controlVideo"
  /\ acts' = Act(a, "done", << "answered" >>)
  /\ UNCHANGED << pageVars, relay, now, relayIsProcessingCommand,
                  lastCommandTimestamp, relayTimers >>

\* The callback of the controlVideo message: the page has answered (or the
\* port closed); the release timer is set.
ControlVideoAnswer(a) ==
  /\ a \in 1..Len(acts)
  /\ acts[a].pc = "controlVideo"
  /\ acts' = Act(a, "done", << "answered" >>)
  /\ relayTimers' = Append(relayTimers, RelayTimer("release", a, ReleaseDelayMs(relay)))
  /\ UNCHANGED << pageVars, relay, now, relayIsProcessingCommand, lastCommandTimestamp >>

\* The direct execution has settled: .finally sets the release timer.
DirectFinished(a) ==
  /\ a \in 1..Len(acts)
  /\ acts[a].pc = "direct"
  /\ acts' = Act(a, "done", << "direct-finished" >>)
  /\ relayTimers' = Append(relayTimers, RelayTimer("release", a, ReleaseDelayMs(relay)))
  /\ UNCHANGED << pageVars, relay, now, relayIsProcessingCommand, lastCommandTimestamp >>

\* A release timer: isProcessingCommand = false.
ReleaseTimer(k) ==
  /\ RelayRunnable(k)
  /\ relayTimers[k].kind = "release"
  /\ relayIsProcessingCommand' = FALSE
  /\ relayTimers' = Without(relayTimers, k)
  /\ UNCHANGED << pageVars, relay, now, lastCommandTimestamp, acts >>

\* The debounce timer: commandDebounceTimer = null.
DebounceTimer(k) ==
  /\ RelayRunnable(k)
  /\ relayTimers[k].kind = "debounce"
  /\ relayTimers' = Without(relayTimers, k)
  /\ UNCHANGED << pageVars, relay, now, relayIsProcessingCommand,
                  lastCommandTimestamp, acts >>

\* The relay's clock: to the next timer that is due, or on by a step when no
\* timer is pending.
RelayElapse ==
  /\ relayTimers # << >>
  /\ \A k \in 1..Len(relayTimers) : relayTimers[k].due > now
  /\ now' = CHOOSE t \in {relayTimers[k].due : k \in 1..Len(relayTimers)} :
               \A k \in 1..Len(relayTimers) : t <= relayTimers[k].due
  /\ UNCHANGED << pageVars, relay, relayVars >>

RelayTick(d) ==
  /\ relayTimers = << >>
  /\ now + d <= MaxTime
  /\ now' = now + d
  /\ UNCHANGED << pageVars, relay, relayVars >>

InitRelay == Init /\ variant = "part001" /\ layout = EmptyLayout

NextRelay ==
  \/ \E c \in Commands : OnCommand(c)
  \/ \E a \in 1..MaxActs, hasTab \in BOOLEAN, throws \in BOOLEAN : QueryResult(a, hasTab, throws)
  \/ \E a \in 1..MaxActs, alive \in BOOLEAN : PingResult(a, alive)
  \/ \E a \in 1..MaxActs, ok \in BOOLEAN : InjectResult(a, ok)
  \/ \E k \in 1..Len(relayTimers) : SettleTimer(k)
  \/ \E a \in 1..MaxActs : ControlVideoAnswer(a)
  \/ \E a \in 1..MaxActs : DirectFinished(a)
  \/ \E k \in 1..Len(relayTimers) : ReleaseTimer(k)
  \/ \E k \in 1..Len(relayTimers) : DebounceTimer(k)
  \/ \E d \in TickSteps : RelayTick(d)
  \/ RelayElapse

SpecRelay == InitRelay /\ [][NextRelay]_vars

\* The platform calls every pending callback of the relay (tabs.query, the
\* ping, the injection, the controlVideo message, the direct execution) and
\* runs every timer that is due, and the clock reaches the next timer.
RelayFairness ==
  /\ WF_vars(\E a \in 1..MaxActs, hasTab \in BOOLEAN, throws \in BOOLEAN :
               QueryResult(a, hasTab, throws))
  /\ WF_vars(\E a \in 1..MaxActs, alive \in BOOLEAN : PingResult(a, alive))
  /\ WF_vars(\E a \in 1..MaxActs, ok \in BOOLEAN : InjectResult(a, ok))
  /\ WF_vars(\E k \in 1..Len(relayTimers) : SettleTimer(k))
  /\ WF_vars(\E a \in 1..MaxActs : ControlVideoAnswer(a))
  /\ WF_vars(\E a \in 1..MaxActs : DirectFinished(a))
  /\ WF_vars(\E k \in 1..Len(relayTimers) : ReleaseTimer(k))
  /\ WF_vars(\E k \in 1..Len(relayTimers) : DebounceTimer(k))
  /\ WF_vars(RelayElapse)

\* The relay never looks at the command it carries, so the fair
\* specification sends one command only.
NextRelayLive ==
  \/ OnCommand("play-pause")
  \/ \E a \in 1..MaxActs, hasTab \in BOOLEAN, throws \in BOOLEAN : QueryResult(a, hasTab, throws)
  \/ \E a \in 1..MaxActs, alive \in BOOLEAN : PingResult(a, alive)
  \/ \E a \in 1..MaxActs, ok \in BOOLEAN : InjectResult(a, ok)
  \/ \E k \in 1..Len(relayTimers) : SettleTimer(k)
  \/ \E a \in 1..MaxActs : ControlVideoAnswer(a)
  \/ \E a \in 1..MaxActs : DirectFinished(a)
  \/ \E k \in 1..Len(relayTimers) : ReleaseTimer(k)
  \/ \E k \in 1..Len(relayTimers) : DebounceTimer(k)
  \/ \E d \in TickSteps : RelayTick(d)
  \/ RelayElapse

SpecRelayLive == InitRelay /\ [][NextRelayLive]_vars /\ RelayFairness

\* ------------------------------------------------------ the direct fallback
\* executeCommandDirectly runs in the top document of the tab when the
\* injection of the content script has failed.

\* background.js:130  timestamp - lastTimestamp < 500
DirectWindowMs == 500
\* background.js:315  setTimeout(..., 50) after a key-down
DirectKeyUpMs == 50
\* background.js:357  setTimeout(..., 100) before the space key
DirectSpaceMs == 100
\* background.js:145  buttons.length >= 3
DirectGroupSize == 3

\* Calls of executeCommandDirectly in one run.
MaxDirect == 3

\* The timestamps a call may carry: none (0, as part_002 passes none), or a
\* reading of the relay's clock.
DirectStamps ==
  {0, StartTime, StartTime + DirectWindowMs - 1, StartTime + DirectWindowMs, MaxTime}

\* Pages with buttons and no media element, besides those of the catalogue.
DirectLayouts ==
  Layouts \cup { [l EXCEPT !.name = "buttons-only", !.dom[1].videos = << >>]
                 : l \in SrOnlyLayouts }

\* '[class*="controls"], [class*="Controls"], [class*="player"],
\* [class*="Player"]' on the class of a container.
ControlGroupClass(cls) ==
  cls \in {"plyr__controls", "ytp-left-controls", "mejs__controls", "video-controls",
           "media-controls", "player-controls", "controls", "ytp-chrome-controls",
           "PlayerControls"}

\* group.querySelectorAll('button'): the buttons of container g, in document
\* order.
GroupButtons(dom, g) == Ascending({k \in 1..Len(dom.buttons) : dom.buttons[k].group = g})

\* positionMap
DirectPosition(command) ==
  CASE command = "play-pause" -> 1
    [] command = "rewind" -> 2
    [] command = "fast-forward" -> 3

\* The button the positional loop clicks: the one at the command's position
\* in the first matching container with three buttons or more; 0 if none.
DirectGroupTarget(dom, command) ==
  LET g == First({n \in 1..Len(dom.groups) :
                    /\ ControlGroupClass(dom.groups[n])
                    /\ Len(GroupButtons(dom, n)) >= DirectGroupSize})
  IN IF g = 0 THEN 0 ELSE GroupButtons(dom, g)[DirectPosition(command)]

\* The forward / rewind buttons of the branch with a media element: the first
\* in document order that a selector of the list matches, or else the first
\* whose text has one of the words; 0 if none.
DirectSeekButton(dom, command) ==
  LET attrWords == IF command = "fast-forward"
                   THEN {"forward", "Forward", "10s", "+10"}
                   ELSE {"rewind", "Rewind", "back", "Back", "-10"}
      classes == IF command = "fast-forward" THEN ForwardClasses ELSE RewindClasses
      textWords == IF command = "fast-forward" THEN {"forward", "+10"}
                   ELSE {"rewind", "back", "-10"}
      BySelector(k) ==
        \/ HasAnyWord(dom.buttons[k].aria, attrWords)
        \/ HasAnyWord(dom.buttons[k].title, attrWords)
        \/ dom.buttons[k].dataPlyr = command
        \/ HasAnyWord(dom.buttons[k].cls, classes)
      ByText(k) == HasAnyWord(toLowerCase(dom.buttons[k].text), textWords)
      first == First({k \in 1..Len(dom.buttons) : BySelector(k)})
  IN IF first # 0 THEN first ELSE First({k \in 1..Len(dom.buttons) : ByText(k)})

\* The media element of the branch: the first that is playing, else the
\* first.
DirectVideo(dom, videoState) ==
  LET playing == First({k \in 1..Len(dom.videos) : ~videoState[dom.videos[k]].paused})
  IN IF playing # 0 THEN dom.videos[playing] ELSE dom.videos[1]

\* buttonSelectors of the branch without a media element: the buttons whose
\* aria-label or title has one of the (lower-case) words.
DirectSelectorButtons(dom, command) ==
  LET words == CASE command = "play-pause" -> {"play", "pause"}
                 [] command = "rewind" -> {"rewind", "back", "previous", "-10"}
                 [] command = "fast-forward" -> {"forward", "next", "+10"}
  IN Ascending({k \in 1..Len(dom.buttons) :
                  \/ HasAnyWord(dom.buttons[k].aria, words)
                  \/ HasAnyWord(dom.buttons[k].title, words)})

\* innerTextMap: the first button whose innerHTML or textContent, in lower
\* case, has one of the terms; 0 if none.
DirectTextButton(dom, command) ==
  LET terms == CASE command = "play-pause" -> {"play", "pause"}
                 [] command = "rewind" -> {"rewind", "back", "prev", "-10"}
                 [] command = "fast-forward" -> {"forward", "next", "+10"}
  IN First({k \in 1..Len(dom.buttons) :
              \/ HasAnyWord(toLowerCase(dom.buttons[k].text), terms)
              \/ HasAnyWord(toLowerCase(dom.buttons[k].spanText), terms)
              \/ HrefParts(dom.buttons[k].useHref) \cap terms # {}})

DirectEvent(c, kind, what) == << c, kind, what >>

DirectTimer(c, at, kind, key) == [call |-> c, at |-> at, kind |-> kind, key |-> key]

\* The outcome of a call: what it returns, the storage and the media elements
\* after it, the events it has caused in order, and the timers it has set.
DirectOutcome(result, st, videoState, log, pending) ==
  [result |-> result, storage |-> st, video |-> videoState, log |-> log, pending |-> pending]

\* The key-down now and the key-up in a timer.
DirectArrow(c, st, videoState, log, key) ==
  DirectOutcome(TRUE, st, videoState,
                log \o << DirectEvent(c, "keydown", key) >>,
                << DirectTimer(c, DirectKeyUpMs, "keyup", key) >>)

\* case 'play-pause' with a media element: play() or pause(); when play() is
\* rejected, space goes down and, in a timer, up; in every case space goes
\* down in a timer and up in a later one.
DirectToggle(c, st, videoState, log, v) ==
  LET wasPaused == videoState[v].paused
      rejected == wasPaused /\ ~videoState[v].canPlay
      video1 == [videoState EXCEPT ![v] = TogglePlayback(@)]
      log1 == log \o << DirectEvent(c, IF wasPaused THEN "play" ELSE "pause", v) >>
      log2 == IF rejected THEN log1 \o << DirectEvent(c, "keydown", " ") >> ELSE log1
      early == IF rejected THEN << DirectTimer(c, DirectKeyUpMs, "keyup", " ") >> ELSE << >>
  IN DirectOutcome(TRUE, st, video1, log2,
                   early \o << DirectTimer(c, DirectSpaceMs, "keydown", " "),
                               DirectTimer(c, DirectSpaceMs + DirectKeyUpMs, "keyup", " ") >>)

\* The three mouse events and click() on a button.
DirectClick(c, log, b) ==
  log \o << DirectEvent(c, "mousedown", b), DirectEvent(c, "mouseup", b),
            DirectEvent(c, "click", b), DirectEvent(c, "click", b) >>

\* The branch without a media element: every button a selector matches is
\* clicked; or the first button with a matching text; or the keys, down and up
\* at once, k and then space for play-pause.
DirectNoVideo(c, st, videoState, log, dom, command) ==
  LET bs == DirectSelectorButtons(dom, command)
      b == DirectTextButton(dom, command)
      key == CASE command = "fast-forward" -> "ArrowRight"
               [] command = "rewind" -> "ArrowLeft"
               [] command = "play-pause" -> "k"
      keys == << DirectEvent(c, "keydown", key), DirectEvent(c, "keyup", key) >>
      alt == IF command = "play-pause"
             THEN << DirectEvent(c, "keydown", " "), DirectEvent(c, "keyup", " ") >>
             ELSE << >>
  IN IF bs # << >>
     THEN DirectOutcome(TRUE, st, videoState,
                        log \o [k \in 1..Len(bs) |-> DirectEvent(c, "click", bs[k])], << >>)
     ELSE IF b # 0
     THEN DirectOutcome(TRUE, st, videoState, log \o << DirectEvent(c, "click", b) >>, << >>)
     ELSE DirectOutcome(TRUE, st, videoState, log \o keys \o alt, << >>)

\* A duplicate check that lets every call through; C24 does not hold of it.
DirectDuplicateNever(st, timestamp) == FALSE

\* if (timestamp) { ... timestamp - lastTimestamp < 500 ... }: a missing key
\* reads as 0; the stored value is the decimal form of an integer, which
\* parseInt reads back as the same integer.
DirectDuplicate(st, timestamp) ==
  timestamp # 0 /\ timestamp - st.lastExecution < DirectWindowMs

\* executeCommandDirectly(command, timestamp), call number c, on the top
\* document of the page.
executeCommandDirectly(lay, videoState, st, c, command, timestamp) ==
  LET dom == lay.dom[1]
      st1 == IF timestamp # 0 THEN [st EXCEPT !.lastExecution = timestamp] ELSE st
      log1 == IF timestamp # 0 THEN << DirectEvent(c, "setItem", timestamp) >> ELSE << >>
      target == DirectGroupTarget(dom, command)
      b == DirectSeekButton(dom, command)
  IN IF DirectDuplicate(st, timestamp)
     THEN DirectOutcome(TRUE, st, videoState, << >>, << >>)
     ELSE IF target # 0
     THEN DirectOutcome(TRUE, st1, videoState, DirectClick(c, log1, target), << >>)
     ELSE IF dom.videos # << >>
     THEN IF command = "play-pause"
          THEN DirectToggle(c, st1, videoState, log1, DirectVideo(dom, videoState))
          ELSE IF b # 0
          THEN DirectOutcome(TRUE, st1, videoState,
                             log1 \o << DirectEvent(c, "click", b) >>, << >>)
          ELSE DirectArrow(c, st1, videoState, log1,
                           IF command = "fast-forward" THEN "ArrowRight" ELSE "ArrowLeft")
     ELSE DirectNoVideo(c, st1, videoState, log1, dom, command)

\* chrome.scripting.executeScript({func: executeCommandDirectly, args:
\* [command, timestamp]}): one call in the page.
ExecuteDirect(command, timestamp) ==
  /\ directRun.calls < MaxDirect
  /\ timestamp = 0 \/ timestamp >= directRun.latest
  /\ LET c == directRun.calls + 1
         out == executeCommandDirectly(layout, video, storage, c, command, timestamp)
     IN /\ storage' = out.storage
        /\ video' = out.video
        /\ directRun' = [ calls |-> c, command |-> command, timestamp |-> timestamp,
                          latest |-> Max(directRun.latest, timestamp),
                          before |-> storage.lastExecution,
                          result |-> out.result,
                          log |-> directRun.log \o out.log,
                          pending |-> directRun.pending \o out.pending ]
  /\ UNCHANGED << relayVars, relay, now, mediaList, selected, invocation, variant, layout,
                  isProcessingCommand, cachedVideoElement, lastTimeAdjustment,
                  listeners, msgs, inbox, timers, responses, keylog, ran, last >>

\* A timer set by a call runs: the key event is dispatched on the document.
\* The timers of one call run in the order of their delays.
DirectTimerFires(k) ==
  /\ k \in 1..Len(directRun.pending)
  /\ \A j \in 1..(k - 1) : directRun.pending[j].call # directRun.pending[k].call
  /\ directRun' = [directRun EXCEPT
                     !.log = Append(@, DirectEvent(directRun.pending[k].call,
                                                   directRun.pending[k].kind,
                                                   directRun.pending[k].key)),
                     !.pending = Without(@, k)]
  /\ UNCHANGED << relayVars, relay, now, mediaList, selected, invocation, scriptVars >>

InitDirect ==
  /\ variant = "content"
  /\ relay \in Relays
  /\ layout \in DirectLayouts
  /\ video = layout.video
  /\ isProcessingCommand = [i \in Instances |-> FALSE]
  /\ cachedVideoElement = [i \in Instances |-> 0]
  /\ lastTimeAdjustment = [i \in Instances |-> 0]
  /\ listeners = [i \in Instances |-> {}]
  /\ storage = EmptyStorage
  /\ now = StartTime
  /\ msgs = << >>
  /\ inbox = {}
  /\ timers = << >>
  /\ responses = [d \in (1..MaxMsgs) \X Instances |-> << >>]
  /\ keylog = << >>
  /\ ran = {}
  /\ last = Idle
  /\ relayIsProcessingCommand = FALSE
  /\ lastCommandTimestamp = 0
  /\ acts = << >>
  /\ relayTimers = << >>
  /\ mediaList = << >>
  /\ selected = 0
  /\ directRun = NoDirect
  /\ invocation = [i \in Instances |-> NoInvocation]

\* background.js passes Date.now() to the call, part_002 passes no timestamp.
NextDirect ==
  \/ \E c \in Commands, ts \in DirectStamps :
       /\ (relay = "part002") = (ts = 0)
       /\ ExecuteDirect(c, ts)
  \/ \E k \in 1..Len(directRun.pending) : DirectTimerFires(k)

SpecDirect == InitDirect /\ [][NextDirect]_vars

\* ------------------------------------------------- the lock, step by step
\* Two script instances in different renderer processes (two tabs of one
\* origin) share localStorage and nothing else; the browser takes no mutex
\* around a script's storage calls, so the calls of one listener invocation
\* interleave with those of the other.  Here every storage call of the
\* listener is a step of its own.

\* controlVideo messages one instance handles in a run.
MaxHandled == 2

\* The frame of the steps below: everything but storage, the clock and the
\* invocations.
lockFrame ==
  << relayVars, relay, mediaList, selected, directRun, variant, layout, video,
     isProcessingCommand, cachedVideoElement, lastTimeAdjustment, listeners, msgs,
     inbox, timers, responses, keylog, ran, last >>

Step(i, pc) == [invocation EXCEPT ![i].pc = pc]

\* The listener ends with sendResponse (a reason for a rejection, "done" for
\* a command that ran).
Respond(i, outcome) ==
  [invocation EXCEPT ![i].pc = "idle", ![i].outcome = outcome]

\* The listener is called with a controlVideo message: the re-entrancy guard,
\* and the branch on message.timestamp.
Receive(i) ==
  /\ invocation[i].pc = "idle"
  /\ invocation[i].handled < MaxHandled
  /\ LET msg == [timestamp |-> IF relay = "background" THEN now ELSE 0]
         fresh == [NoInvocation EXCEPT !.handled = invocation[i].handled + 1,
                                       !.timestamp = msg.timestamp]
     IN invocation' =
          [invocation EXCEPT ![i] =
             IF DuplicateInstance(isProcessingCommand[i])
             THEN [fresh EXCEPT !.outcome = "duplicate-instance"]
             ELSE [fresh EXCEPT !.pc = IF ChecksTimestamp(variant, msg)
                                       THEN "timestamp" ELSE "getLock"]]
  /\ UNCHANGED << lockFrame, storage, now >>

\* part_001: getItem(LAST_COMMAND_TIMESTAMP) and the duplicate test.
ReadTimestamp(i) ==
  /\ invocation[i].pc = "timestamp"
  /\ invocation' =
       IF invocation[i].timestamp - storage.lastTs < DuplicateWindowMs
       THEN Respond(i, "duplicate-timestamp")
       ELSE Step(i, "setTimestamp")
  /\ UNCHANGED << lockFrame, storage, now >>

\* part_001: setItem(LAST_COMMAND_TIMESTAMP, message.timestamp).
WriteTimestamp(i) ==
  /\ invocation[i].pc = "setTimestamp"
  /\ storage' = [storage EXCEPT !.lastTs = invocation[i].timestamp]
  /\ invocation' = [invocation EXCEPT ![i].pc = "getLock",
                                      ![i].wrote = @ \cup {"timestamp"}]
  /\ UNCHANGED << lockFrame, now >>

\* acquireCommandLock: currentLock = getItem(COMMAND_LOCK_KEY).
GetLock(i) ==
  /\ invocation[i].pc = "getLock"
  /\ invocation' = [invocation EXCEPT ![i].pc = "getExpiry",
                                      ![i].currentLock = storage.lock]
  /\ UNCHANGED << lockFrame, storage, now >>

\* acquireCommandLock: expiryTime = getItem(COMMAND_LOCK_EXPIRY) and the test
\* against Date.now(); false is answered with 'locked'.
GetExpiry(i) ==
  /\ invocation[i].pc = "getExpiry"
  /\ invocation' =
       IF /\ invocation[i].currentLock # NoLock
          /\ storage.expiry # 0
          /\ storage.expiry > now
       THEN Respond(i, "locked")
       ELSE Step(i, "setLock")
  /\ UNCHANGED << lockFrame, storage, now >>

\* acquireCommandLock: a fresh lockId and setItem(COMMAND_LOCK_KEY, lockId).
SetLock(i) ==
  /\ invocation[i].pc = "setLock"
  /\ storage' = [storage EXCEPT !.lock = <<now, i>>]
  /\ invocation' = [invocation EXCEPT ![i].pc = "setExpiry",
                                      ![i].lockId = <<now, i>>,
                                      ![i].wrote = @ \cup {"lock"}]
  /\ UNCHANGED << lockFrame, now >>

\* acquireCommandLock: setItem(COMMAND_LOCK_EXPIRY, Date.now() + 1000).
SetExpiry(i) ==
  /\ invocation[i].pc = "setExpiry"
  /\ storage' = [storage EXCEPT !.expiry = now + LockExpiryMs]
  /\ invocation' = [invocation EXCEPT ![i].pc = "verify",
                                      ![i].wrote = @ \cup {"expiry"}]
  /\ UNCHANGED << lockFrame, now >>

\* acquireCommandLock: return getItem(COMMAND_LOCK_KEY) === lockId.
ReadBack(st, lockId) == st.lock = lockId

VerifyLock(i) ==
  /\ invocation[i].pc = "verify"
  /\ invocation' =
       IF ReadBack(storage, invocation[i].lockId)
       THEN [invocation EXCEPT ![i].pc = "run", ![i].acquiredAt = now]
       ELSE Respond(i, "locked")
  /\ UNCHANGED << lockFrame, storage, now >>

\* The accepted command: the flag is set, the command runs and the flag is
\* cleared, all in the instance's own document.
RunCommand(i) ==
  /\ invocation[i].pc = "run"
  /\ invocation' = Step(i, "removeLock")
  /\ UNCHANGED << lockFrame, storage, now >>

\* releaseCommandLock: removeItem(COMMAND_LOCK_KEY).
RemoveLock(i) ==
  /\ invocation[i].pc = "removeLock"
  /\ storage' = [storage EXCEPT !.lock = NoLock]
  /\ invocation' = [invocation EXCEPT ![i].pc = "removeExpiry",
                                      ![i].removed = storage.lock]
  /\ UNCHANGED << lockFrame, now >>

\* releaseCommandLock: removeItem(COMMAND_LOCK_EXPIRY); then sendResponse.
RemoveExpiry(i) ==
  /\ invocation[i].pc = "removeExpiry"
  /\ storage' = [storage EXCEPT !.expiry = 0]
  /\ invocation' = Respond(i, "done")
  /\ UNCHANGED << lockFrame, now >>

\* Date.now() moves on between any two steps.
LockTick(d) ==
  /\ now + d <= MaxTime
  /\ now' = now + d
  /\ UNCHANGED << lockFrame, storage, invocation >>

InitLock == Init /\ layout = EmptyLayout

NextLock ==
  \/ \E i \in Instances : Receive(i)
  \/ \E i \in Instances : ReadTimestamp(i)
  \/ \E i \in Instances : WriteTimestamp(i)
  \/ \E i \in Instances : GetLock(i)
  \/ \E i \in Instances : GetExpiry(i)
  \/ \E i \in Instances : SetLock(i)
  \/ \E i \in Instances : SetExpiry(i)
  \/ \E i \in Instances : VerifyLock(i)
  \/ \E i \in Instances : RunCommand(i)
  \/ \E i \in Instances : RemoveLock(i)
  \/ \E i \in Instances : RemoveExpiry(i)
  \/ \E d \in TickSteps : LockTick(d)

SpecLock == InitLock /\ [][NextLock]_vars

\* ------------------------------------------------------------ properties

\* Instance i ran the command of message m to its end and answered with the
\* result (an answer without a reason).
ChainRan(m, i) ==
  \E k \in 1..Len(responses[<<m, i>>]) : responses[<<m, i>>][k].reason = ""

\* The first run on the page has just ended and it was a whole run.
FirstRunDone ==
  Len(msgs) = 1 /\ last.msg = 1 /\ last.outcome = "done"

StrategyTried(strategy) ==
  \E k \in 1..Len(last.trace) : last.trace[k][1] = strategy

StrategyReported(strategy, ok) ==
  \E k \in 1..Len(last.trace) : last.trace[k] = <<strategy, ok>>

\* C1: a controlVideo message handled by an instance whose isProcessingCommand
\* is set is answered {success: false, reason: 'duplicate-instance'} and
\* starts no strategy: the step changes nothing but the inbox, the response log
\* and the record of the latest invocation.
C1_ReentrancyGuard ==
  [][\A d \in inbox :
       (isProcessingCommand[d[2]] /\ inbox' = inbox \ {d})
         => /\ responses' =
                 [responses EXCEPT
                    ![d] = Append(@, Response(d[1], d[2], FALSE, "duplicate-instance"))]
            /\ last'.outcome = "duplicate-instance"
            /\ UNCHANGED << video, isProcessingCommand, cachedVideoElement,
                            lastTimeAdjustment, listeners, storage, timers, keylog,
                            ran >>]_vars

\* C1, its case: an instance has turned a message away with
\* 'duplicate-instance'.
C1_Witness == last.outcome = "duplicate-instance"

\* C2: when two controlVideo messages with the same command carry timestamps
\* less than the duplicate window apart and an instance has run the first, the
\* same instance does not run the second: it answers it with success false and
\* a reason.
C2_DuplicateTimestampRejected ==
  \A i \in Instances : \A m1 \in 1..Len(msgs) : \A m2 \in 1..Len(msgs) :
    ( /\ m1 < m2
      /\ msgs[m1].command = msgs[m2].command
      /\ msgs[m1].timestamp # 0
      /\ msgs[m2].timestamp # 0
      /\ msgs[m2].timestamp - msgs[m1].timestamp < DuplicateWindowMs
      /\ ChainRan(m1, i) )
      => /\ ~ChainRan(m2, i)
         /\ \A k \in 1..Len(responses[<<m2, i>>]) :
              /\ ~responses[<<m2, i>>][k].success
              /\ responses[<<m2, i>>][k].reason # ""

\* C3: of the instances that receive one controlVideo message, at most one
\* runs the strategy chain.
C3_OneInstancePerCommand ==
  \A m \in 1..Len(msgs) : Cardinality({i \in Instances : ChainRan(m, i)}) <= 1

\* C7: the strategies a run of performVideoControl has tried are an initial
\* part of exact, group, html5, fallback, keyboard in that order; every one
\* but the last tried reported failure; the run stopped before the fifth only
\* at a success; its result is what the last tried reported, so it is failure
\* only if all five reported failure.
C7_StrategyOrder ==
  (last.outcome = "done" /\ last.trace # << >>)
    => LET n == Len(last.trace)
       IN /\ n <= Len(Strategies)
          /\ \A k \in 1..n : last.trace[k][1] = Strategies[k]
          /\ \A k \in 1..(n - 1) : ~last.trace[k][2]
          /\ n < Len(Strategies) => last.trace[n][2]
          /\ last.success = last.trace[n][2]
          /\ ~last.success => (n = Len(Strategies) /\ \A k \in 1..n : ~last.trace[k][2])

\* C7, its case: a run that stopped at the third strategy after two failures.
C7_Witness ==
  /\ last.outcome = "done"
  /\ last.trace = << <<"exact", FALSE>>, <<"group", FALSE>>, <<"html5", TRUE>> >>

Expected(v, command) ==
  CASE command = "fast-forward" -> [v EXCEPT !.t = Min(v.t + SeekSeconds, v.d)]
    [] command = "rewind" -> [v EXCEPT !.t = Max(v.t - SeekSeconds, 0)]
    [] command = "play-pause" -> [v EXCEPT !.paused = ~v.paused]

\* A starting state away from both bounds, of an element the platform lets
\* play.
Interior(v) == v.canPlay /\ v.t >= SeekSeconds /\ v.t + SeekSeconds <= v.d

\* C9, at the starting states away from the bounds: on a page with one media
\* element and no control, the first command that runs to its end has had the
\* direct media control report success (the direct media strategy of the
\* chain, or the listener's own toggle where the chain is not used) and has
\* left the element in the expected state.
C9_DirectMediaControl ==
  (layout.name = "one-video" /\ Interior(layout.video[1]) /\ FirstRunDone)
    => /\ \/ StrategyReported("html5", TRUE)
          \/ (last.trace = << >> /\ last.success)
       /\ video[1] = Expected(layout.video[1], last.command)

\* C10, on a page with one media element and no control: when the direct
\* media strategy has been applied to the media element for a rewind or a
\* fast-forward and the position has not moved by more than the epsilon, the
\* strategy has reported failure and the keyboard strategy has been tried.
C10_UnmovedSeekFallsThrough ==
  ( /\ layout.name = "one-video"
    /\ FirstRunDone
    /\ last.command \in {"rewind", "fast-forward"}
    /\ StrategyTried("html5")
    /\ cachedVideoElement[last.inst] # 0
    /\ Abs(video[cachedVideoElement[last.inst]].t
             - layout.video[cachedVideoElement[last.inst]].t) <= SeekEpsilon )
    => /\ StrategyReported("html5", FALSE)
       /\ StrategyTried("keyboard")

\* An activation is in flight until the page has answered its command, the
\* direct fallback has finished, or no tab was found.
InFlight(a) == acts[a].pc # "done"

\* Position of the first occurrence of an event in a log, 0 if there is none.
Pos(log, ev) == First({n \in 1..Len(log) : log[n] = ev})

PingOutcomes == {"ping-answered", "ping-failed", "ping-threw"}

\* C4: while an activation is in flight the relay's isProcessingCommand is
\* true, and no two activations are in flight at once.
C4_OneActivationInFlight ==
  /\ \A a \in 1..Len(acts) : InFlight(a) => relayIsProcessingCommand
  /\ Cardinality({a \in 1..Len(acts) : InFlight(a)}) <= 1

\* C5: an activation with a tab starts with the ping; controlVideo is sent
\* only after the outcome of the ping is known: directly after an answered
\* ping, with no injection, and otherwise only after the injection has
\* succeeded and at least the settle delay later.
C5_PingBeforeCommand ==
  \A a \in 1..Len(acts) :
    LET log == acts[a].log
        sent == Pos(log, "controlVideo")
    IN /\ log # << >> => log[1] \in {"ping", "ping-threw", "no-tab"}
       /\ Pos(log, "ping-answered") # 0
            => /\ Pos(log, "inject") = 0
               /\ sent = Pos(log, "ping-answered") + 1
       /\ sent # 0
            => /\ \E k \in 1..(sent - 1) : log[k] \in PingOutcomes
               /\ \/ log[sent - 1] = "ping-answered"
                  \/ /\ Pos(log, "ping-answered") = 0
                     /\ Pos(log, "inject") # 0
                     /\ Pos(log, "inject") < Pos(log, "inject-ok")
                     /\ Pos(log, "inject-ok") < sent
                     /\ acts[a].sentAt >= acts[a].injectedAt + SettleDelayMs

\* C5, its case: a command sent after an unanswered ping, an injection and
\* the settle delay.
C5_Witness ==
  \E a \in 1..Len(acts) :
    /\ Pos(acts[a].log, "ping-failed") # 0
    /\ Pos(acts[a].log, "inject-ok") # 0
    /\ Pos(acts[a].log, "controlVideo") # 0

\* C6: the direct execution is run only after the injection has failed, and
\* no activation both sends controlVideo and runs the direct execution.
C6_DirectOnlyAfterFailedInjection ==
  \A a \in 1..Len(acts) :
    LET log == acts[a].log
        direct == Pos(log, "direct")
    IN /\ direct # 0
            => /\ Pos(log, "inject-failed") # 0
               /\ Pos(log, "inject-failed") < direct
               /\ Pos(log, "inject-ok") = 0
       /\ ~(direct # 0 /\ Pos(log, "controlVideo") # 0)

\* C6, its case: an activation whose direct execution has finished.
C6_Witness ==
  \E a \in 1..Len(acts) : Pos(acts[a].log, "direct-finished") # 0

\* The button of the latest run's frame that a click of that run went to.
Clicked(k) == layout.dom[last.inst].buttons[last.clicks[k][1]]

\* The accessible label, the title or the text of a button names a rewind.
LabelNamesRewind(b) ==
  \/ includes(toLowerCase(b.aria), <<"rewind">>)
  \/ includes(toLowerCase(b.title), <<"rewind">>)
  \/ includes(toLowerCase(b.text), <<"rewind">>)

\* C11: a fast-forward command that has run to its end has activated no
\* button whose accessible label, title or text contains a rewind term.
C11_ForwardNeverActivatesRewind ==
  (last.outcome = "done" /\ last.command = "fast-forward")
    => \A k \in 1..Len(last.clicks) : ~LabelNamesRewind(Clicked(k))

\* C12: on the page whose only controls are three unlabelled buttons in a
\* "controls" container, a rewind command that has run to its end has
\* activated the second button of the triple (index 1 counting from 0).
C12_PositionalFallback ==
  (layout.name = "triple" /\ last.outcome = "done" /\ last.command = "rewind")
    => \E k \in 1..Len(last.clicks) : last.clicks[k][1] = 2

\* The exclusion patterns: navigation, search, notification, dialog trigger,
\* submit button.
Excluded(b) ==
  \/ includes(toLowerCase(b.text), <<"next", "lesson">>)
  \/ includes(toLowerCase(b.aria), <<"next", "lesson">>)
  \/ includes(toLowerCase(b.text), <<"search">>)
  \/ includes(toLowerCase(b.aria), <<"notification">>)
  \/ b.haspopup
  \/ b.btype = "submit"

\* C13: no command that has run to its end has activated a button that
\* matches an exclusion pattern.
C13_ExcludedNeverActivated ==
  last.outcome = "done" => \A k \in 1..Len(last.clicks) : ~Excluded(Clicked(k))

\* The latest listener invocation was the handling of a controlVideo message
\* that went past the guards and ended, by a result or by an exception.
HandlingEnded == last.outcome \in {"done", "threw"}

\* The latest listener invocation turned its message away at a guard.
Rejected == last.outcome \in {"duplicate-instance", "duplicate-timestamp", "locked"}

\* C14: when the handling of a controlVideo message has ended, by a result or
\* by an exception raised in the strategy chain, the instance's
\* isProcessingCommand is false again and no lock is left in storage.
C14_FlagAndLockReleased ==
  HandlingEnded => (~isProcessingCommand[last.inst] /\ storage.lock = NoLock)

\* C15: a controlVideo message that a listener has handled, on whatever
\* path, has exactly one answer from that listener, and an answer given by a
\* guard is {success: false} with a reason.
C15_AnsweredExactlyOnce ==
  \A m \in 1..Len(msgs) : \A i \in layout.frames :
    <<m, i>> \notin inbox
      => /\ Len(responses[<<m, i>>]) = 1
         /\ responses[<<m, i>>][1].success \in BOOLEAN
         /\ (Rejected /\ last.msg = m /\ last.inst = i)
              => (~responses[<<m, i>>][1].success /\ responses[<<m, i>>][1].reason # "")

\* C16: a ping is answered {success: true} in every state of the page and
\* changes nothing: a step in which a listener answers a ping leaves
\* isProcessingCommand, the storage (lock and stored timestamp), the cached
\* media element, the media elements, the timers, the key events and the
\* responses to commands as they were, and activates nothing.
C16_PingChangesNothing ==
  [][(last' # last /\ last'.outcome = "pong")
       => /\ last'.success
          /\ last'.clicks = << >> /\ last'.media = << >> /\ last'.keys = << >>
          /\ UNCHANGED << isProcessingCommand, storage, cachedVideoElement, video,
                          lastTimeAdjustment, listeners, timers, responses, keylog,
                          ran, inbox, msgs >>]_vars

\* C16, its case: a ping has been answered by an instance whose
\* isProcessingCommand is set while a lock is in storage.
C16_Witness ==
  /\ last.outcome = "pong"
  /\ last.success
  /\ isProcessingCommand[last.inst]
  /\ storage.lock # NoLock

\* C16, another case: a ping has been answered within the duplicate window
\* after a command whose timestamp was stored.
C16_WitnessInWindow ==
  /\ last.outcome = "pong"
  /\ last.success
  /\ storage.lastTs # 0
  /\ now - storage.lastTs < DuplicateWindowMs
  /\ cachedVideoElement[last.inst] # 0

\* The step is a whole run of the command of some message by instance i.
RunBy(i) ==
  /\ \E m \in 1..Len(msgs) : <<m, i>> \in ran' \ ran
  /\ last'.outcome = "done"

C18_BestVideo ==
  selected # 0
    => /\ selected \in 1..Len(mediaList)
       /\ IF \E k \in 1..Len(mediaList) : ~mediaList[k].paused
          THEN ~mediaList[selected].paused
          ELSE \A k \in 1..Len(mediaList) : mediaList[selected].d >= mediaList[k].d

\* C18, its case: from a list of three the loop has picked a playing element
\* that is neither the first nor the longest of the list.
C18_Witness ==
  /\ selected # 0
  /\ Len(mediaList) = MaxMedia
  /\ selected # 1
  /\ ~mediaList[selected].paused
  /\ \E k \in 1..Len(mediaList) : mediaList[k].d > mediaList[selected].d

\* C18, another case: no element of the list plays and the loop has picked
\* the longest, which is not the first.
C18_WitnessLongest ==
  /\ selected > 1
  /\ \A k \in 1..Len(mediaList) : mediaList[k].paused
  /\ \A k \in 1..Len(mediaList) : k # selected => mediaList[k].d < mediaList[selected].d

\* The key events of one command at one instance for one key on one target.
SameKey(e, f) ==
  e.msg = f.msg /\ e.inst = f.inst /\ e.key = f.key /\ e.target = f.target

KeyCount(type, e, n) ==
  Cardinality({q \in 1..n : keylog[q].type = type /\ SameKey(keylog[q], e)})

\* Every key-up so far came after a key-down of its own that no earlier
\* key-up had answered.
DownBeforeUp ==
  \A p \in 1..Len(keylog) :
    keylog[p].type = "keyup"
      => KeyCount("keyup", keylog[p], p - 1) < KeyCount("keydown", keylog[p], p - 1)

\* The key-down of a command's letter key comes after the key-down and the
\* key-up of its conventional key, dispatched for the same command by the
\* same instance.
MainBeforeLetter ==
  \A p \in 1..Len(keylog) :
    ( /\ keylog[p].type = "keydown"
      /\ keylog[p].key = AltKey(msgs[keylog[p].msg].command) )
      => \E q1 \in 1..p : \E q2 \in 1..p :
           /\ q1 < q2 /\ q2 < p
           /\ keylog[q1].msg = keylog[p].msg /\ keylog[q1].inst = keylog[p].inst
           /\ keylog[q2].msg = keylog[p].msg /\ keylog[q2].inst = keylog[p].inst
           /\ keylog[q1].type = "keydown" /\ keylog[q2].type = "keyup"
           /\ keylog[q1].key = MainKey(msgs[keylog[p].msg].command)
           /\ keylog[q2].key = keylog[q1].key

\* Every key that went down has come up again.
AllKeysUp ==
  \A p \in 1..Len(keylog) :
    KeyCount("keydown", keylog[p], Len(keylog)) = KeyCount("keyup", keylog[p], Len(keylog))

\* C19: in keyboard simulation a key-up is dispatched only after its
\* key-down, the conventional key goes down and up before the letter key
\* goes down, and, timers being run, every key that went down comes up.
C19_KeyDownThenKeyUp ==
  /\ [](DownBeforeUp /\ MainBeforeLetter)
  /\ (~AllKeysUp ~> AllKeysUp)

\* C19, its case: the whole sequence of tryKeyboardMethod has been
\* dispatched: the lower-case letter key, the last of it, has come up.
C19_Witness ==
  /\ AllKeysUp
  /\ \E p \in 1..Len(keylog) :
       /\ keylog[p].type = "keyup"
       /\ keylog[p].key = LowerKey(msgs[keylog[p].msg].command)

\* C20: a play-pause command that has run to its end has not both toggled a
\* media element directly and activated a control button.
C20_OneTogglePerCommand ==
  (last.outcome = "done" /\ last.command = "play-pause")
    => ~(last.media # << >> /\ last.clicks # << >>)

\* C21: in background.js any two accepted activations (those that went on to
\* chrome.tabs.query) were accepted at least the debounce window apart on the
\* relay's clock, and none was accepted before the recorded time of the
\* previous command plus the window.
C21_AcceptedApart ==
  relay = "background"
    => /\ \A a \in 1..Len(acts) : \A b \in 1..Len(acts) :
            a < b => acts[b].acceptedAt - acts[a].acceptedAt >= DebounceMs
       /\ \A a \in 1..Len(acts) : acts[a].acceptedAt <= lastCommandTimestamp

\* C21, its case: a second activation accepted by background.js exactly the
\* debounce window after the first.
C21_Witness ==
  /\ relay = "background"
  /\ Len(acts) = 2
  /\ acts[2].acceptedAt - acts[1].acceptedAt = DebounceMs

\* C26: the relay's recorded time changes only in a step that accepts an
\* activation; an activation that is turned away, by the debounce check or
\* because a command is still processing, leaves lastCommandTimestamp,
\* isProcessingCommand and the timers as they were.
C26_RejectedChangesNothing ==
  [][acts' = acts =>
       \/ lastCommandTimestamp' = lastCommandTimestamp
       \/ relayTimers' # relayTimers
       \/ relayIsProcessingCommand' # relayIsProcessingCommand]_vars

\* The release of activation a has happened: it is done and no release timer
\* of it is pending.
Released(a) ==
  /\ a <= Len(acts)
  /\ acts[a].pc = "done"
  /\ \A k \in 1..Len(relayTimers) :
       ~(relayTimers[k].kind = "release" /\ relayTimers[k].act = a)

\* C25: when the platform's callbacks and timers fire, every accepted
\* activation comes to its end with its release done, and whenever the relay's
\* isProcessingCommand is true it is false again later: the relay is never left
\* dropping activations for good.
C25_FlagEventuallyReleased ==
  /\ \A a \in 1..MaxActs : (a <= Len(acts)) ~> Released(a)
  /\ relayIsProcessingCommand ~> ~relayIsProcessingCommand

\* C25, its case: an activation whose injection failed has gone through the
\* direct execution, its release timer has run and the flag is false.
C25_Witness ==
  \E a \in 1..Len(acts) :
    /\ Pos(acts[a].log, "direct-finished") # 0
    /\ Released(a)
    /\ ~relayIsProcessingCommand

\* C24: a call of executeCommandDirectly that carries a timestamp less than
\* the window after the one recorded in the page's storage returns true, causes
\* no click, no media call and no key event, sets no timer and leaves the
\* recorded timestamp and the media elements as they were; any other call with
\* a timestamp records it, and does so before its first click, media call or
\* key event.
C24_DirectDuplicateGuard ==
  [][(directRun'.calls = directRun.calls + 1 /\ directRun'.timestamp # 0)
       => LET c == directRun'.calls
              ts == directRun'.timestamp
              mine == {k \in 1..Len(directRun'.log) : directRun'.log[k][1] = c}
          IN IF ts - storage.lastExecution < DirectWindowMs
             THEN /\ directRun'.result
                  /\ mine = {}
                  /\ directRun'.pending = directRun.pending
                  /\ storage' = storage
                  /\ video' = video
             ELSE /\ storage'.lastExecution = ts
                  /\ mine # {}
                  /\ directRun'.log[First(mine)] = DirectEvent(c, "setItem", ts)]_vars

\* C24, its case: a call that was turned away as a duplicate, after a call
\* that had acted, while a later call outside the window has acted again.
C24_Witness ==
  /\ directRun.calls = 3
  /\ directRun.timestamp - directRun.before >= DirectWindowMs
  /\ directRun.before # 0
  /\ \E k \in 1..Len(directRun.log) : directRun.log[k][1] = 1 /\ directRun.log[k][2] = "click"
  /\ \A k \in 1..Len(directRun.log) : directRun.log[k][1] # 2
  /\ \E k \in 1..Len(directRun.log) : directRun.log[k][1] = 3 /\ directRun.log[k][2] = "click"

\* C23: a lock in storage carries the expiry of its acquisition time plus one
\* second, and a listener invocation that comes to acquireCommandLock is turned
\* away as 'locked' exactly when a lock is stored whose expiry is later than the
\* clock: an unexpired lock always blocks, and a lock that was never released
\* blocks no acquisition from its expiry on.
C23_LockBlocksUntilExpiry ==
  /\ [](storage.lock # NoLock
          => /\ storage.expiry = storage.lock[1] + LockExpiryMs
             /\ storage.lock[1] <= now)
  /\ [][\A d \in inbox :
          ( /\ inbox' = inbox \ {d}
            /\ ~isProcessingCommand[d[2]]
            /\ last'.outcome \notin {"storage-threw", "duplicate-timestamp"} )
            => ( last'.outcome = "locked"
                   <=> (storage.lock # NoLock /\ storage.expiry > now) )]_vars

\* C23, its case: the second frame was turned away as 'locked' by the lock the
\* first had left behind, and has taken the lock itself once that had expired.
C23_Witness ==
  /\ \E k \in 1..Len(responses[<<1, 2>>]) : responses[<<1, 2>>][k].reason = "locked"
  /\ storage.lock # NoLock
  /\ storage.lock[2] = 2
  /\ storage.lock[1] >= StartTime + LockExpiryMs

\* acquireCommandLock of instance i has returned true and its
\* releaseCommandLock has not yet removed the lock.
Holding(i) == invocation[i].pc \in {"run", "removeLock"}

\* C22: of two instances whose acquireCommandLock calls interleave at most one
\* gets true: two instances never both hold the lock on acquisitions less than
\* the expiry apart.
C22_SingleWinner ==
  \A i \in Instances : \A j \in Instances :
    (i # j /\ Holding(i) /\ Holding(j))
      => Abs(invocation[i].acquiredAt - invocation[j].acquiredAt) >= LockExpiryMs

\* C29: an invocation that has answered with a rejection (duplicate-instance,
\* duplicate-timestamp, locked) has written nothing to storage: the stored
\* timestamp, the lock and its expiry are as the other invocations left them.
C29_RejectionWritesNothing ==
  \A i \in Instances :
    ( /\ invocation[i].pc = "idle"
      /\ invocation[i].outcome \in {"duplicate-instance", "duplicate-timestamp", "locked"} )
      => invocation[i].wrote = {}

\* C30: the lock that releaseCommandLock removes is never one that another
\* instance holds unexpired.
C30_NoForeignRelease ==
  [][\A i \in Instances : \A j \in Instances :
       ( /\ invocation[i].pc = "removeLock"
         /\ invocation'[i].pc = "removeExpiry"
         /\ i # j )
         => ~( /\ Holding(j)
               /\ storage.lock = invocation[j].lockId
               /\ storage.expiry > now )]_vars

\* C27: whenever suppression listeners are installed on an instance's
\* document, they are all removed again later.
C27_ListenersEventuallyRemoved ==
  \A i \in Instances : (listeners[i] # {}) ~> (listeners[i] = {})

=============================================================================
